---- MODULE Spec2Model ----
(***************************************************************************)
(* Semantic job matching of Resume-Job-Assist:                             *)
(*   backend/nlp_service/semantic_job_matcher.py  (SemanticJobMatcher)     *)
(*   backend/job_scraper/intelligent_reddit_scraper.py (context bonus)     *)
(*                                                                         *)
(* A Python str is a sequence of one-character strings, a dict is a        *)
(* function whose domain is the set of keys that are present, a float      *)
(* score is an exact rational [n, d], and Python's None is the record      *)
(* None below.                                                             *)
(***************************************************************************)
EXTENDS Integers, Sequences, FiniteSets, TLC

(***************************************************************************)
(* Python values                                                           *)
(***************************************************************************)

\* Python's None: a record no dict of the program can equal.
None == [py_none |-> TRUE]

\* A list element that is not a str (None inside a list of strings).
NoneItem == <<"<None>">>

UpperChars == <<"A","B","C","D","E","F","G","H","I","J","K","L","M",
                "N","O","P","Q","R","S","T","U","V","W","X","Y","Z">>
LowerChars == <<"a","b","c","d","e","f","g","h","i","j","k","l","m",
                "n","o","p","q","r","s","t","u","v","w","x","y","z">>
OtherChars == {" ", "\n", "\t", ".", ",", ":", "[", "]", "_", "-", "+", "/",
               "0", "1", "2", "3", "4", "5", "6", "7", "8", "9"}

Chars == {UpperChars[i] : i \in DOMAIN UpperChars}
           \cup {LowerChars[i] : i \in DOMAIN LowerChars} \cup OtherChars

\* isinstance(x, str)
IsStr(x) == \A i \in DOMAIN x : x[i] \in Chars

\* str.split() separators
Whitespace == {" ", "\n", "\t"}

ToSet(seq) == {seq[i] : i \in DOMAIN seq}

\* dict.get(key, default)
Get(d, key, default) == IF key \in DOMAIN d THEN d[key] ELSE default

\* {**d, **extra}
Merge(d, extra) ==
    [k \in DOMAIN d \cup DOMAIN extra |->
        IF k \in DOMAIN extra THEN extra[k] ELSE d[k]]

\* seq[:n] for n >= 0 and for n < 0
Slice(seq, n) ==
    IF n >= 0
      THEN SubSeq(seq, 1, IF n < Len(seq) THEN n ELSE Len(seq))
      ELSE SubSeq(seq, 1, IF Len(seq) + n > 0 THEN Len(seq) + n ELSE 0)

\* c.lower() for every character
LowerChar ==
    [c \in Chars |->
        IF \E i \in DOMAIN UpperChars : UpperChars[i] = c
          THEN LowerChars[CHOOSE i \in DOMAIN UpperChars : UpperChars[i] = c]
          ELSE c]

\* str.lower()
lower(s) == [i \in DOMAIN s |-> LowerChar[s[i]]]

\* the positions where a word starts: a non-whitespace character at the
\* start of the string or right after whitespace
WordStarts(s) ==
    {i \in DOMAIN s : s[i] \notin Whitespace /\ (i = 1 \/ s[i - 1] \in Whitespace)}

\* the position where the word starting at i ends
WordEnd(s, i) ==
    CHOOSE j \in i..Len(s) :
        /\ j = Len(s) \/ s[j + 1] \in Whitespace
        /\ \A k \in (i + 1)..j : s[k] \notin Whitespace

\* str.split(): the maximal runs of non-whitespace characters, in order
split(s) ==
    LET starts == WordStarts(s)
    IN  [n \in 1..Cardinality(starts) |->
            LET i == CHOOSE i \in starts :
                        Cardinality({j \in starts : j < i}) = n - 1
            IN  SubSeq(s, i, WordEnd(s, i))]

RECURSIVE join(_, _)
\* sep.join(parts)
join(sep, parts) ==
    IF parts = <<>> THEN <<>>
    ELSE IF Len(parts) = 1 THEN parts[1]
    ELSE parts[1] \o sep \o join(sep, Tail(parts))

\* str.replace('\n', ' ')
replace_newlines(s) == [i \in DOMAIN s |-> IF s[i] = "\n" THEN " " ELSE s[i]]

RECURSIVE lstrip(_)
lstrip(s) ==
    IF s # <<>> /\ s[1] \in Whitespace THEN lstrip(Tail(s)) ELSE s

RECURSIVE rstrip(_)
rstrip(s) ==
    IF s # <<>> /\ s[Len(s)] \in Whitespace
      THEN rstrip(SubSeq(s, 1, Len(s) - 1)) ELSE s

\* str.strip()
strip(s) == rstrip(lstrip(s))

\* needle in haystack, for two strings
Contains(haystack, needle) ==
    \E i \in 0..(Len(haystack) - Len(needle)) :
        \A k \in DOMAIN needle : haystack[i + k] = needle[k]

(***************************************************************************)
(* Scores: exact rationals n/d with d > 0                                  *)
(***************************************************************************)

R(n, d) == [n |-> n, d |-> d]

RAdd(a, b) == R(a.n * b.d + b.n * a.d, a.d * b.d)
RLeq(a, b) == a.n * b.d <= b.n * a.d
RLt(a, b) == a.n * b.d < b.n * a.d
REq(a, b) == a.n * b.d = b.n * a.d
RMin(a, b) == IF RLeq(a, b) THEN a ELSE b

Zero == R(0, 1)
One == R(1, 1)

\* a bonus of h hundredths
Hundredths(h) == R(h, 100)

(***************************************************************************)
(* Text Projector: _profile_to_text, _job_to_text                          *)
(***************************************************************************)

TopSkills == 15
TopProjects == 3
ContentLimit == 500

\* _profile_to_text(profile), lines 77-111
\* the clause is appended whether or not the list has an element
clause_of_unconditional(items, prefix, names) ==
    << prefix \o join(<<","," ">>, names) >>

\* if items: text_parts.append(f"<prefix>{', '.join(names)}"), lines 94-97,
\* 100-103 and 106-109: the parts the clause adds to text_parts
clause_of(items, prefix, names) ==
    IF items # <<>> THEN << prefix \o join(<<","," ">>, names) >> ELSE <<>>

\* the names of all the skills
skill_names_of_all(skills) == [i \in DOMAIN skills |-> skills[i].skill]

\* skill_names = [skill['skill'] for skill in skills[:15]], line 96
skill_names(skills) ==
    [i \in DOMAIN Slice(skills, TopSkills) |-> skills[i].skill]

\* _profile_to_text(profile), lines 77-111
profile_to_text(profile) ==
    LET name == Get(profile, "name", <<"U","s","e","r">>)
        education == Get(profile, "education_level", <<>>)
        field == Get(profile, "field_of_study", <<>>)
        exp_level == Get(profile, "experience_level", <<"e","n","t","r","y">>)
        skills == Get(profile, "skills", <<>>)
        domains == Get(profile, "domains", <<>>)
        projects == Get(profile, "projects", <<>>)
        names == skill_names(skills)
        domain_names == [i \in DOMAIN domains |-> domains[i].domain]
        project_titles ==
            [i \in DOMAIN Slice(projects, TopProjects) |-> projects[i].title]
        part1 == << name \o <<" ","i","s"," ","a"," ">> \o exp_level
                    \o <<" ","l","e","v","e","l"," ","p","r","o","f","e","s","s",
                         "i","o","n","a","l">> >>
        part2 == IF education # <<>> /\ field # <<>>
                   THEN << <<"w","i","t","h"," ">> \o education
                           \o <<" ","d","e","g","r","e","e"," ","i","n"," ">>
                           \o field >>
                   ELSE <<>>
        part3 == clause_of(skills,
                           <<"s","k","i","l","l","e","d"," ","i","n"," ">>,
                           names)
        part4 == clause_of(domains,
                           <<"w","i","t","h"," ","e","x","p","e","r","t","i","s",
                             "e"," ","i","n"," ">>,
                           domain_names)
        part5 == clause_of(projects,
                           <<"h","a","v","i","n","g"," ","w","o","r","k","e","d",
                             " ","o","n"," ","p","r","o","j","e","c","t","s"," ",
                             "l","i","k","e"," ">>,
                           project_titles)
        text_parts == part1 \o part2 \o part3 \o part4 \o part5
    IN  join(<<"."," ">>, text_parts) \o <<".">>

\* Outcome of a call that may raise: the value, or the exception's type.
Ok(v) == [ok |-> TRUE, val |-> v, err |-> "none"]
Raise(e) == [ok |-> FALSE, val |-> <<>>, err |-> e]

\* _job_to_text(job), lines 169-208.  ', '.join(skills) raises TypeError
\* when an element of skills_mentioned is not a str.
\* the cleaned body in full
clean_content_untruncated(content) == strip(replace_newlines(content))

\* clean_content = content.replace('\\n', ' ').strip(); clean_content[:500],
\* lines 186-187
clean_content(content) ==
    Slice(strip(replace_newlines(content)), ContentLimit)

job_to_text(job) ==
    LET title == Get(job, "title", <<>>)
        company == Get(job, "author", <<>>)
        content == Get(job, "content", <<>>)
        exp_level == Get(job, "experience_level", <<>>)
        location == Get(job, "location", <<>>)
        remote == Get(job, "remote", FALSE)
        skills == Get(job, "skills_mentioned", <<>>)
        part1 == << <<"J","o","b",":"," ">> \o title >>
        part2 == IF company # <<>>
                    /\ company # <<"[","d","e","l","e","t","e","d","]">>
                   THEN << <<"a","t"," ">> \o company >>
                   ELSE <<>>
        part3 == IF content # <<>> THEN << clean_content(content) >> ELSE <<>>
        part4 == IF exp_level # <<>>
                   THEN << <<"E","x","p","e","r","i","e","n","c","e"," ","l","e",
                             "v","e","l",":"," ">> \o exp_level >>
                   ELSE <<>>
        part5 == IF remote
                   THEN << <<"R","e","m","o","t","e"," ","w","o","r","k"," ","a",
                             "v","a","i","l","a","b","l","e">> >>
                   ELSE IF location # <<>>
                          THEN << <<"L","o","c","a","t","i","o","n",":"," ">>
                                  \o location >>
                          ELSE <<>>
        part6 == IF skills # <<>>
                   THEN << <<"S","k","i","l","l","s",":"," ">>
                           \o join(<<","," ">>, skills) >>
                   ELSE <<>>
        text_parts == part1 \o part2 \o part3 \o part4 \o part5 \o part6
    IN  IF skills # <<>> /\ \E i \in DOMAIN skills : ~IsStr(skills[i])
          THEN Raise("TypeError")
          ELSE Ok(join(<<"."," ">>, text_parts))

(***************************************************************************)
(* Similarity Engine                                                       *)
(***************************************************************************)

stop_words ==
    {<<"t","h","e">>, <<"a","n","d">>, <<"o","r">>, <<"b","u","t">>,
     <<"i","n">>, <<"o","n">>, <<"a","t">>, <<"t","o">>,
     <<"f","o","r">>, <<"o","f">>, <<"w","i","t","h">>, <<"b","y">>,
     <<"i","s">>, <<"a","r","e">>, <<"w","a","s">>, <<"w","e","r","e">>,
     <<"b","e">>, <<"b","e","e","n">>, <<"h","a","v","e">>, <<"h","a","s">>,
     <<"h","a","d">>, <<"d","o">>, <<"d","o","e","s">>, <<"d","i","d">>,
     <<"w","i","l","l">>, <<"w","o","u","l","d">>, <<"c","o","u","l","d">>,
     <<"s","h","o","u","l","d">>}

\* the stop words are removed from the profile words only
calculate_keyword_similarity_job_stop_words(profile_text, job_text) ==
    LET profile_words == ToSet(split(lower(profile_text))) \ stop_words
        job_words == ToSet(split(lower(job_text)))
        intersection == Cardinality(profile_words \cap job_words)
        union == Cardinality(profile_words \cup job_words)
    IN  IF union > 0 THEN R(intersection, union) ELSE Zero

\* the job text is not lowercased
calculate_keyword_similarity_job_case(profile_text, job_text) ==
    LET profile_words == ToSet(split(lower(profile_text))) \ stop_words
        job_words == ToSet(split(job_text)) \ stop_words
        intersection == Cardinality(profile_words \cap job_words)
        union == Cardinality(profile_words \cup job_words)
    IN  IF union > 0 THEN R(intersection, union) ELSE Zero

\* _calculate_keyword_similarity(profile_text, job_text), lines 227-244
calculate_keyword_similarity(profile_text, job_text) ==
    LET profile_words == ToSet(split(lower(profile_text))) \ stop_words
        job_words == ToSet(split(lower(job_text))) \ stop_words
        intersection == Cardinality(profile_words \cap job_words)
        union == Cardinality(profile_words \cup job_words)
    IN  IF union > 0 THEN R(intersection, union) ELSE Zero

\* What self.model.encode followed by cosine_similarity does for one pair
\* of texts: it raises, or it yields a cosine in [-1, 1].
EmbedRaises == [raises |-> TRUE, cos |-> Zero]
EmbedCosine(c) == [raises |-> FALSE, cos |-> c]

\* _calculate_semantic_similarity(profile_text, job_text), lines 210-225,
\* given what the embedding does for this pair
calculate_semantic_similarity(embed) ==
    IF embed.raises THEN Zero ELSE embed.cos

(***************************************************************************)
(* State                                                                   *)
(***************************************************************************)

VARIABLES
    profiles,            \* the profile store (Neo4j): user_email -> profile dict or None
    now,                 \* datetime.now().timestamp(), in seconds
    model,               \* self.model: "SentenceTransformer" or "None"
    user_profile_cache,  \* self.user_profile_cache: user_email -> profile text
    last,                \* the call whose outcome the caller holds, with the
                         \* job list the caller passed as the call left it
    prev,                \* the call before it, when last repeats that call
    applied,             \* a scoring function applied on its own, and its result
    threads              \* the get_user_profile_text calls of concurrent threads

vars ==
    <<profiles, now, model, user_profile_cache, last, prev, applied, threads>>

\* ResumeNeo4jStorage.get_user_profile(user_email), resume_storage.py 450-499
get_user_profile(user_email) == profiles[user_email]

(***************************************************************************)
(* Ranker: bonuses and explanation                                         *)
(***************************************************************************)

SecondsPerDay == 24 * 3600
RecentDays == 7

\* the caps on the bonuses, in hundredths
BonusCap == 30
QueryBonusCap == 25

\* domain_keywords of _calculate_bonus_score, lines 279-283
domain_keywords ==
    << [domain |-> <<"h","e","a","l","t","h","c","a","r","e">>,
        keywords |->
          << <<"h","e","a","l","t","h","c","a","r","e">>,
             <<"m","e","d","i","c","a","l">>,
             <<"c","l","i","n","i","c","a","l">>,
             <<"p","a","t","i","e","n","t">>,
             <<"h","o","s","p","i","t","a","l">> >>],
       [domain |-> <<"a","i","_","m","l">>,
        keywords |->
          << <<"m","a","c","h","i","n","e"," ","l","e","a","r","n","i","n","g">>,
             <<"m","l">>,
             <<"a","i">>,
             <<"n","e","u","r","a","l">>,
             <<"d","e","e","p"," ","l","e","a","r","n","i","n","g">>,
             <<"n","l","p">> >>],
       [domain |-> <<"w","e","b","_","d","e","v">>,
        keywords |->
          << <<"w","e","b">>,
             <<"f","r","o","n","t","e","n","d">>,
             <<"b","a","c","k","e","n","d">>,
             <<"a","p","i">>,
             <<"j","a","v","a","s","c","r","i","p","t">>,
             <<"r","e","a","c","t">> >>] >>

\* domain_keywords.get(user_domain, [])
domain_skills_of(user_domain) ==
    IF \E i \in DOMAIN domain_keywords : domain_keywords[i].domain = user_domain
      THEN domain_keywords[CHOOSE i \in DOMAIN domain_keywords :
                               domain_keywords[i].domain = user_domain].keywords
      ELSE <<>>

\* a job exactly seven days old still counts as recent
recency_bonus_through_day_seven(created_utc, timestamp) ==
    LET days_old == R(timestamp - created_utc, SecondsPerDay)
    IN  IF created_utc # 0 /\ RLeq(days_old, R(RecentDays, 1)) THEN 3 ELSE 0

\* if created_utc: days_old = (datetime.now().timestamp() - created_utc)
\* / (24 * 3600); if days_old < 7: bonus += 0.03, lines 267-272, in
\* hundredths
recency_bonus(created_utc, timestamp) ==
    LET days_old == R(timestamp - created_utc, SecondsPerDay)
    IN  IF created_utc # 0 /\ RLt(days_old, R(RecentDays, 1)) THEN 3 ELSE 0

\* _calculate_bonus_score(user_email, job), lines 246-291, in hundredths.
\* ' '.join(job_skills) raises TypeError on a non-str element; it is
\* evaluated for the first user domain that has keywords.
calculate_bonus_score(user_email, job) ==
    LET profile == get_user_profile(user_email)
        user_exp_level ==
            Get(profile, "experience_level", <<"e","n","t","r","y">>)
        job_exp_level == Get(job, "experience_level", <<"e","n","t","r","y">>)
        level_bonus == IF user_exp_level = job_exp_level THEN 10 ELSE 0
        remote_bonus == IF Get(job, "remote", FALSE) THEN 5 ELSE 0
        created_utc == Get(job, "created_utc", 0)
        recent_bonus == recency_bonus(created_utc, now)
        domains == Get(profile, "domains", <<>>)
        user_domains == [i \in DOMAIN domains |-> domains[i].domain]
        job_skills == Get(job, "skills_mentioned", <<>>)
        joined == lower(join(<<" ">>, job_skills))
        domain_bonus ==
            IF \E i \in DOMAIN user_domains :
                 \E k \in DOMAIN domain_skills_of(user_domains[i]) :
                    Contains(joined, domain_skills_of(user_domains[i])[k])
              THEN 8 ELSE 0
        bonus == level_bonus + remote_bonus + recent_bonus + domain_bonus
    IN  IF profile = None THEN Ok(Hundredths(0))
        ELSE IF /\ \E i \in DOMAIN user_domains :
                      domain_skills_of(user_domains[i]) # <<>>
                /\ \E i \in DOMAIN job_skills : ~IsStr(job_skills[i])
          THEN Raise("TypeError")
          ELSE Ok(Hundredths(IF bonus < BonusCap THEN bonus ELSE BonusCap))

\* min(bonus, 0.3) left out
cap_context_bonus_absent(bonus) == bonus

\* min(bonus, 0.3), intelligent_reddit_scraper.py line 408
cap_context_bonus(bonus) == IF bonus < BonusCap THEN bonus ELSE BonusCap

\* every shared skill adds 0.05, without limit
skill_overlap_bonus_unlimited(skill_overlap) == skill_overlap * 5

\* if skill_overlap > 0: bonus += min(skill_overlap * 0.05, 0.15),
\* intelligent_reddit_scraper.py lines 396-398, in hundredths
skill_overlap_bonus(skill_overlap) ==
    IF skill_overlap > 0
      THEN (IF skill_overlap * 5 < 15 THEN skill_overlap * 5 ELSE 15)
      ELSE 0

\* every matched domain adds 0.08, without limit
domain_match_bonus_uncapped(domain_matches) == domain_matches * 8

\* if domain_matches > 0: bonus += min(domain_matches * 0.08, 0.16),
\* intelligent_reddit_scraper.py lines 405-406, in hundredths
domain_match_bonus(domain_matches) ==
    IF domain_matches > 0
      THEN (IF domain_matches * 8 < 16 THEN domain_matches * 8 ELSE 16)
      ELSE 0

\* IntelligentRedditJobScraper._calculate_context_bonus(job_data,
\* user_profile), intelligent_reddit_scraper.py 376-408, in hundredths.
\* skill.lower() raises AttributeError on a non-str skill, and
\* job_data['title'], job_data['content'] raise KeyError when missing.
calculate_context_bonus(job_data, user_profile) ==
    LET user_level ==
            Get(user_profile, "experience_level", <<"e","n","t","r","y">>)
        job_level == Get(job_data, "experience_level", <<"e","n","t","r","y">>)
        level_bonus == IF user_level = job_level THEN 5 ELSE 0
        remote_bonus ==
            IF Get(job_data, "remote", FALSE) /\ user_level = <<"e","n","t","r","y">>
              THEN 3 ELSE 0
        skills == Get(user_profile, "skills", <<>>)
        mentioned == Get(job_data, "skills_mentioned", <<>>)
        user_skills == {lower(skills[i].skill) : i \in DOMAIN skills}
        job_skills == {lower(mentioned[i]) : i \in DOMAIN mentioned}
        skill_overlap == Cardinality(user_skills \cap job_skills)
        skill_bonus == skill_overlap_bonus(skill_overlap)
        domains == Get(user_profile, "domains", <<>>)
        user_domains == {lower(domains[i].domain) : i \in DOMAIN domains}
        job_text == lower(job_data["title"] \o <<" ">> \o job_data["content"])
        domain_matches ==
            Cardinality({d \in user_domains : Contains(job_text, d)})
        domain_bonus == domain_match_bonus(domain_matches)
        bonus == level_bonus + remote_bonus + skill_bonus + domain_bonus
    IN  IF \E i \in DOMAIN mentioned : ~IsStr(mentioned[i])
          THEN Raise("AttributeError")
        ELSE IF "title" \notin DOMAIN job_data \/ "content" \notin DOMAIN job_data
          THEN Raise("KeyError")
          ELSE Ok(Hundredths(cap_context_bonus(bonus)))

\* the stop words of _calculate_keyword_relevance, line 367
relevance_stop_words ==
    {<<"t","h","e">>, <<"a","n","d">>, <<"o","r">>, <<"b","u","t">>,
     <<"i","n">>, <<"o","n">>, <<"a","t">>, <<"t","o">>,
     <<"f","o","r">>, <<"o","f">>, <<"w","i","t","h">>, <<"b","y">>}

\* IntelligentRedditJobScraper._calculate_keyword_relevance(job_data,
\* search_context), intelligent_reddit_scraper.py 356-374
calculate_keyword_relevance(job_data, search_context) ==
    IF "title" \notin DOMAIN job_data \/ "content" \notin DOMAIN job_data
      THEN Raise("KeyError")
      ELSE LET job_text == job_data["title"] \o <<" ">> \o job_data["content"]
               context_words ==
                   ToSet(split(lower(search_context))) \ relevance_stop_words
               job_words == ToSet(split(lower(job_text))) \ relevance_stop_words
               intersection == Cardinality(context_words \cap job_words)
               union == Cardinality(context_words \cup job_words)
           IN  Ok(IF union > 0 THEN R(intersection, union) ELSE Zero)

\* the sum is returned as it is
relevance_cap_absent(score) == score

\* min(similarity + bonus, 1.0), intelligent_reddit_scraper.py line 350
relevance_cap(score) == RMin(score, One)

\* IntelligentRedditJobScraper._calculate_relevance(job_data,
\* search_context), intelligent_reddit_scraper.py 333-354, with
\* self.user_profile and what the embedding does for the two texts: without
\* a model the keyword relevance, outside the try; with one, the capped sum
\* of similarity and context bonus, and 0.0 when anything in the try raises
calculate_relevance(job_data, search_context, user_profile, embed) ==
    IF model = "None"
      THEN calculate_keyword_relevance(job_data, search_context)
      ELSE LET projected == job_to_text(job_data)
               similarity == calculate_semantic_similarity(embed)
               bonus == calculate_context_bonus(job_data, user_profile)
           IN  IF ~projected.ok \/ ~bonus.ok
                 THEN Ok(Zero)
                 ELSE Ok(relevance_cap(RAdd(similarity, bonus.val)))

\* the indicator lists of _extract_experience_level, lines 413-428
entry_indicators ==
    << <<"e","n","t","r","y"," ","l","e","v","e","l">>,
     <<"e","n","t","r","y","-","l","e","v","e","l">>,
     <<"j","u","n","i","o","r">>, <<"i","n","t","e","r","n">>,
     <<"i","n","t","e","r","n","s","h","i","p">>,
     <<"n","e","w"," ","g","r","a","d">>,
     <<"n","e","w"," ","g","r","a","d","u","a","t","e">>,
     <<"f","r","e","s","h"," ","g","r","a","d","u","a","t","e">>,
     <<"r","e","c","e","n","t"," ","g","r","a","d","u","a","t","e">>,
     <<"0","-","1"," ","y","e","a","r">>,
     <<"0","-","2"," ","y","e","a","r","s">>,
     <<"n","o"," ","e","x","p","e","r","i","e","n","c","e">>,
     <<"s","t","u","d","e","n","t">> >>

mid_indicators ==
    << <<"m","i","d"," ","l","e","v","e","l">>,
     <<"m","i","d","-","l","e","v","e","l">>,
     <<"e","x","p","e","r","i","e","n","c","e","d">>,
     <<"2","-","5"," ","y","e","a","r","s">>,
     <<"3","-","7"," ","y","e","a","r","s">>,
     <<"i","n","t","e","r","m","e","d","i","a","t","e">>,
     <<"a","s","s","o","c","i","a","t","e">>, <<"i","i">>,
     <<"l","e","v","e","l"," ","2">> >>

senior_indicators ==
    << <<"s","e","n","i","o","r">>, <<"p","r","i","n","c","i","p","a","l">>,
     <<"s","t","a","f","f">>, <<"l","e","a","d">>,
     <<"m","a","n","a","g","e","r">>, <<"d","i","r","e","c","t","o","r">>,
     <<"5","+"," ","y","e","a","r","s">>,
     <<"7","+"," ","y","e","a","r","s">>,
     <<"1","0","+"," ","y","e","a","r","s">>, <<"e","x","p","e","r","t">>,
     <<"a","r","c","h","i","t","e","c","t">> >>

\* any(indicator in text for indicator in indicators)
AnyIn(indicators, text) ==
    \E i \in DOMAIN indicators : Contains(text, indicators[i])

\* IntelligentRedditJobScraper._extract_experience_level(text),
\* intelligent_reddit_scraper.py 410-442
extract_experience_level(text) ==
    IF AnyIn(senior_indicators, text) THEN <<"s","e","n","i","o","r">>
    ELSE IF AnyIn(mid_indicators, text) THEN <<"m","i","d">>
    ELSE <<"e","n","t","r","y">>

\* RedditJobScraper.extract_job_info(post), reddit_job_scraper.py 105-163:
\* the fields of the record that the scoring reads (the location, the
\* skills, the url and the post's counters are not modelled)
extract_job_info(title, content) ==
    LET text_to_search == lower(title \o <<" ">> \o content)
        remote == AnyIn(<< <<"r","e","m","o","t","e">>, <<"a","n","y","w","h","e","r","e">>, <<"w","o","r","l","d","w","i","d","e">> >>, text_to_search)
        experience_level ==
            IF AnyIn(<< <<"i","n","t","e","r","n">>, <<"i","n","t","e","r","n","s","h","i","p">>, <<"e","n","t","r","y"," ","l","e","v","e","l">>, <<"j","u","n","i","o","r">>, <<"n","e","w"," ","g","r","a","d">> >>, text_to_search)
              THEN <<"E","n","t","r","y"," ","L","e","v","e","l">>
            ELSE IF AnyIn(<< <<"s","e","n","i","o","r">>, <<"l","e","a","d">>, <<"p","r","i","n","c","i","p","a","l">>, <<"5","+"," ","y","e","a","r","s">>, <<"3","+"," ","y","e","a","r","s">> >>, text_to_search)
              THEN <<"S","e","n","i","o","r">>
            ELSE IF AnyIn(<< <<"m","i","d"," ","l","e","v","e","l">>, <<"2","-","3"," ","y","e","a","r","s">>, <<"e","x","p","e","r","i","e","n","c","e","d">> >>, text_to_search)
              THEN <<"M","i","d"," ","L","e","v","e","l">>
            ELSE <<"N","o","t"," ","s","p","e","c","i","f","i","e","d">>
    IN  [title |-> title, content |-> content,
         experience_level |-> experience_level, remote |-> remote]

\* min_relevance_score of IntelligentRedditJobScraper.__init__, line 31, in
\* hundredths
MinRelevance == 25

\* posts older than 30 days are skipped, lines 185-187
MaxPostAgeDays == 30

\* search_context[:200], line 205
StoredContext == 200

\* the relevant jobs found before the error are returned
on_scrape_error_partial(relevant_jobs) == relevant_jobs

\* except Exception: return [], lines 214-216
on_scrape_error(relevant_jobs) == <<>>

\* The loop of _scrape_subreddit_intelligently from post i on, lines 181-212:
\* posts is what subreddit.new(limit=limit * 2) yields, a post being what
\* the listing gives, what _is_likely_job_post and _extract_job_info make
\* of it and what the embedding does for it, or an error raised by the
\* listing.  The outcome is the list returned and whether an exception
\* was caught.
RECURSIVE scan_posts(_, _, _, _, _, _, _)
scan_posts(self, posts, i, relevant_jobs, subreddit_name, search_context, limit) ==
    IF i > Len(posts) THEN [failed |-> FALSE, jobs |-> relevant_jobs]
    ELSE IF posts[i].kind = "error"
      THEN [failed |-> TRUE, jobs |-> on_scrape_error(relevant_jobs)]
    ELSE IF \/ now - posts[i].created_utc > MaxPostAgeDays * SecondsPerDay
            \/ ~posts[i].likely
            \/ posts[i].job_data = None
      THEN scan_posts(self, posts, i + 1, relevant_jobs, subreddit_name,
                      search_context, limit)
    ELSE LET job_data == Merge(posts[i].job_data,
                               [subreddit |-> subreddit_name,
                                created_utc |-> posts[i].created_utc])
             relevance == calculate_relevance(job_data, search_context,
                                              self.user_profile,
                                              posts[i].embed)
             kept == IF RLeq(Hundredths(MinRelevance), relevance.val)
                       THEN Append(relevant_jobs,
                                   Merge(job_data,
                                         [relevance_score |-> relevance.val,
                                          matched_for_user |-> self.user_email,
                                          search_context |->
                                            Slice(search_context,
                                                  StoredContext)]))
                       ELSE relevant_jobs
         IN  IF ~relevance.ok
               THEN [failed |-> TRUE, jobs |-> on_scrape_error(relevant_jobs)]
             ELSE IF Len(kept) >= limit
               THEN [failed |-> FALSE, jobs |-> kept]
               ELSE scan_posts(self, posts, i + 1, kept, subreddit_name,
                               search_context, limit)

\* _scrape_subreddit_intelligently(subreddit_name, search_context, limit),
\* lines 169-216, for the listing of the subreddit
scrape_subreddit_intelligently(self, subreddit_name, listing, search_context, limit) ==
    scan_posts(self, Slice(listing, limit * 2), 1, <<>>, subreddit_name,
               search_context, limit)

\* all_relevant_jobs.sort(key=lambda x: x['relevance_score'], reverse=True),
\* line 146: a stable sort
sort_by_relevance_score(jobs) ==
    LET before(i) ==
            Cardinality({j \in DOMAIN jobs :
                \/ RLt(jobs[i].relevance_score, jobs[j].relevance_score)
                \/ /\ REq(jobs[i].relevance_score, jobs[j].relevance_score)
                   /\ j < i})
    IN  [k \in DOMAIN jobs |->
            jobs[CHOOSE i \in DOMAIN jobs : before(i) = k - 1]]

RECURSIVE extend_all(_)
extend_all(lists) ==
    IF lists = <<>> THEN <<>> ELSE Head(lists) \o extend_all(Tail(lists))

\* scrape_intelligent_jobs(search_query="", subreddits, limit_per_subreddit),
\* lines 89-156, of a scraper self with its user_email and the user_profile
\* it loaded: listings[s] is the listing of subreddits[s]; scans are the
\* outcomes of the subreddits, jobs the list returned
scrape_intelligent_jobs(self, subreddits, listings, limit_per_subreddit) ==
    IF self.user_profile = None
      THEN [scans |-> <<>>, jobs |-> <<>>]
      ELSE LET enhanced_search_context == profile_to_text(self.user_profile)
               scans == [s \in DOMAIN listings |->
                           scrape_subreddit_intelligently(
                               self, subreddits[s], listings[s],
                               enhanced_search_context, limit_per_subreddit)]
           IN  [scans |-> scans,
                jobs |-> sort_by_relevance_score(
                           extend_all([s \in DOMAIN scans |-> scans[s].jobs]))]

explain_stoplist ==
    {<<"w","i","t","h">>, <<"h","a","v","e">>, <<"b","e","e","n">>,
     <<"t","h","i","s">>, <<"t","h","a","t">>, <<"t","h","e","y">>,
     <<"t","h","e","m">>, <<"w","e","r","e">>, <<"w","i","l","l">>,
     <<"w","o","r","k">>}

MaxKeywords == 5

\* The lists of k distinct elements of the set S: what list(S)[:k] can be,
\* the iteration order of a Python set of strings being unspecified.
Arrangements(S, k) ==
    {a \in [1..k -> S] : \A i, j \in 1..k : i # j => a[i] # a[j]}

\* a score on a threshold gets the upper label
match_label_inclusive(score) ==
    IF RLeq(R(7, 10), score)
      THEN <<"E","x","c","e","l","l","e","n","t"," ","m","a","t","c","h">>
    ELSE IF RLeq(R(5, 10), score)
      THEN <<"G","o","o","d"," ","m","a","t","c","h">>
    ELSE IF RLeq(R(3, 10), score)
      THEN <<"M","o","d","e","r","a","t","e"," ","m","a","t","c","h">>
      ELSE <<"L","i","m","i","t","e","d"," ","m","a","t","c","h">>

\* the first explanation of _explain_match, lines 298-305
match_label(score) ==
    IF RLt(R(7, 10), score)
      THEN <<"E","x","c","e","l","l","e","n","t"," ","m","a","t","c","h">>
    ELSE IF RLt(R(5, 10), score)
      THEN <<"G","o","o","d"," ","m","a","t","c","h">>
    ELSE IF RLt(R(3, 10), score)
      THEN <<"M","o","d","e","r","a","t","e"," ","m","a","t","c","h">>
      ELSE <<"L","i","m","i","t","e","d"," ","m","a","t","c","h">>

\* _explain_match(profile_text, job_text, score), lines 293-319: the set of
\* strings the call can return
explain_match(profile_text, job_text, score) ==
    LET label == match_label(score)
        profile_words == ToSet(split(lower(profile_text)))
        job_words == ToSet(split(lower(job_text)))
        common_words == profile_words \cap job_words
        meaningful_words ==
            {word \in common_words : Len(word) > 3 /\ word \notin explain_stoplist}
        shown == IF Cardinality(meaningful_words) < MaxKeywords
                   THEN Cardinality(meaningful_words) ELSE MaxKeywords
    IN  IF meaningful_words = {}
          THEN {label}
          ELSE {join(<<"."," ">>,
                     <<label,
                       <<"C","o","m","m","o","n"," ","k","e","y","w","o","r","d",
                         "s",":"," ">> \o join(<<","," ">>, listed)>>) :
                  listed \in Arrangements(meaningful_words, shown)}

\* query_keywords of _calculate_query_bonus, lines 385-395, points in hundredths
query_keywords ==
    <<[keyword |-> <<"i","n","t","e","r","n">>, points |-> 10],
      [keyword |-> <<"e","n","t","r","y">>, points |-> 10],
      [keyword |-> <<"j","u","n","i","o","r">>, points |-> 10],
      [keyword |-> <<"r","e","m","o","t","e">>, points |-> 5],
      [keyword |-> <<"h","e","a","l","t","h","c","a","r","e">>, points |-> 8],
      [keyword |-> <<"a","i">>, points |-> 8],
      [keyword |-> <<"m","l">>, points |-> 8],
      [keyword |-> <<"d","a","t","a"," ","s","c","i","e","n","c","e">>, points |-> 10],
      [keyword |-> <<"p","y","t","h","o","n">>, points |-> 5]>>

RECURSIVE SumPoints(_, _, _)
SumPoints(i, query_lower, job_text) ==
    IF i > Len(query_keywords) THEN 0
    ELSE (IF /\ Contains(query_lower, query_keywords[i].keyword)
             /\ Contains(job_text, query_keywords[i].keyword)
            THEN query_keywords[i].points ELSE 0)
         + SumPoints(i + 1, query_lower, job_text)

\* _calculate_query_bonus(query, job), lines 377-401, in hundredths
calculate_query_bonus(query, job) ==
    LET projected == job_to_text(job)
        bonus == SumPoints(1, lower(query), lower(projected.val))
    IN  IF ~projected.ok THEN Raise(projected.err)
        ELSE Ok(Hundredths(IF bonus < QueryBonusCap THEN bonus
                           ELSE QueryBonusCap))

(***************************************************************************)
(* Inputs                                                                  *)
(***************************************************************************)

MaxJobs == 2
MaxTopK == 2

Users == {"asha@nmims.edu"}

Asha ==
    [name |-> <<"A","s","h","a">>,
     experience_level |-> <<"e","n","t","r","y">>,
     skills |-> << [skill |-> <<"p","y","t","h","o","n">>],
                   [skill |-> <<"s","q","l">>] >>,
     domains |-> << [domain |-> <<"a","i","_","m","l">>] >>,
     projects |-> <<>>]

Ben ==
    [name |-> <<"B","e","n">>,
     experience_level |-> <<"s","e","n","i","o","r">>,
     education_level |-> <<"B","S">>,
     field_of_study |-> <<"C","S">>,
     skills |-> <<>>,
     domains |-> <<>>,
     projects |-> << [title |-> <<"w","e","b"," ","a","p","i">>] >>]

Profiles == {Asha, Ben}

\* post.created_utc of the one timestamped job, and the moments of scoring:
\* one second short of seven days after it, and seven days after it.
PostTime == 1700000000
Times == {PostTime + 7 * SecondsPerDay - 1, PostTime + 7 * SecondsPerDay}

PythonIntern ==
    [title |-> <<"P","y","t","h","o","n"," ","I","n","t","e","r","n">>,
     author |-> <<"a","c","m","e">>,
     content |-> <<"r","e","m","o","t","e"," ","i","n","t","e","r","n","s","h",
                   "i","p",",","\n","p","y","t","h","o","n"," ","r","e","q","u",
                   "i","r","e","d">>,
     experience_level |-> <<"e","n","t","r","y">>,
     remote |-> TRUE,
     skills_mentioned |-> << <<"p","y","t","h","o","n">>, <<"s","q","l">>,
                             <<"m","l">> >>,
     created_utc |-> PostTime]

JavaArchitect ==
    [title |-> <<"S","e","n","i","o","r"," ","J","a","v","a"," ","A","r","c","h",
                 "i","t","e","c","t">>,
     content |-> <<"1","0"," ","y","e","a","r","s"," ","j","a","v","a">>,
     experience_level |-> <<"s","e","n","i","o","r">>,
     location |-> <<"A","u","s","t","i","n">>,
     remote |-> FALSE,
     skills_mentioned |-> << <<"j","a","v","a">> >>]

\* a malformed record: a skill that is not a string
Malformed ==
    [title |-> <<"D","a","t","a"," ","A","n","a","l","y","s","t">>,
     skills_mentioned |-> << NoneItem >>]

JobPool == {PythonIntern, JavaArchitect, Malformed}

JobLists == UNION {[1..n -> JobPool] : n \in 0..MaxJobs}

TopKs == 0..MaxTopK

Queries == {<<"r","e","m","o","t","e"," ","p","y","t","h","o","n"," ","i","n",
              "t","e","r","n">>}

CosineValues == {R(-1, 2), R(-13, 50), R(3, 4)}

EmbedOutcomes == {EmbedRaises} \cup {EmbedCosine(c) : c \in CosineValues}

(***************************************************************************)
(* SemanticJobMatcher                                                      *)
(***************************************************************************)

\* the entry is created before the text is computed, and stays empty
cache_put_empty(cache, user_email, profile_text) ==
    [u \in DOMAIN cache \cup {user_email} |->
        IF u = user_email THEN <<>> ELSE cache[u]]

\* a second write for the user adds to the text the cache holds
cache_put_appended(cache, user_email, profile_text) ==
    [u \in DOMAIN cache \cup {user_email} |->
        IF u = user_email
          THEN (IF u \in DOMAIN cache THEN cache[u] ELSE <<>>) \o profile_text
          ELSE cache[u]]

\* self.user_profile_cache[user_email] = profile_text, line 73
cache_put(cache, user_email, profile_text) ==
    [u \in DOMAIN cache \cup {user_email} |->
        IF u = user_email THEN profile_text ELSE cache[u]]

\* the store is asked first: without a stored profile there is no text,
\* cached or not
get_user_profile_text_asks_store_first(user_email) ==
    LET profile == get_user_profile(user_email)
    IN  IF profile = None
          THEN [found |-> FALSE, text |-> <<>>, cache |-> user_profile_cache]
        ELSE IF user_email \in DOMAIN user_profile_cache
          THEN [found |-> TRUE, text |-> user_profile_cache[user_email],
                cache |-> user_profile_cache]
          ELSE [found |-> TRUE, text |-> profile_to_text(profile),
                cache |-> cache_put(user_profile_cache, user_email,
                                    profile_to_text(profile))]

\* the cache is not consulted: the text is rebuilt from the store each time
get_user_profile_text_reloads(user_email) ==
    LET profile == get_user_profile(user_email)
    IN  IF profile = None
          THEN [found |-> FALSE, text |-> <<>>, cache |-> user_profile_cache]
          ELSE [found |-> TRUE, text |-> profile_to_text(profile),
                cache |-> cache_put(user_profile_cache, user_email,
                                    profile_to_text(profile))]

\* get_user_profile_text(user_email), lines 56-75: whether a text is
\* returned, the text, and the cache after the call
get_user_profile_text(user_email) ==
    IF user_email \in DOMAIN user_profile_cache
      THEN [found |-> TRUE, text |-> user_profile_cache[user_email],
            cache |-> user_profile_cache]
      ELSE LET profile == get_user_profile(user_email)
           IN  IF profile = None
                 THEN [found |-> FALSE, text |-> <<>>,
                       cache |-> user_profile_cache]
                 ELSE [found |-> TRUE, text |-> profile_to_text(profile),
                       cache |-> cache_put(user_profile_cache, user_email,
                                           profile_to_text(profile))]

\* a failed embedding is replaced by the keyword similarity
similarity_of_keyword_on_raise(text, job_text, embeds) ==
    IF model # "None" /\ ~embeds[job_text].raises
      THEN calculate_semantic_similarity(embeds[job_text])
      ELSE calculate_keyword_similarity(text, job_text)

\* the embedding is attempted without a model: encode on None raises, the
\* exception is caught and the similarity is 0.0
similarity_of_zero_without_model(text, job_text, embeds) ==
    IF model # "None"
      THEN calculate_semantic_similarity(embeds[job_text])
      ELSE Zero

\* The similarity of lines 143-146 / 350-353; embeds[job_text] is what the
\* embedding does for this text against the profile text of the call
similarity_of(text, job_text, embeds) ==
    IF model # "None"
      THEN calculate_semantic_similarity(embeds[job_text])
      ELSE calculate_keyword_similarity(text, job_text)

\* One iteration of the loop of match_jobs_to_user, lines 138-160: the
\* job_match records it can append, or the exception it raises
job_match_of(user_email, user_profile_text, job, embeds) ==
    LET projected == job_to_text(job)
        job_text == projected.val
        similarity_score == similarity_of(user_profile_text, job_text, embeds)
        bonus == calculate_bonus_score(user_email, job)
        bonus_score == bonus.val
        final_score == RAdd(similarity_score, bonus_score)
    IN  IF ~projected.ok THEN Raise(projected.err)
        ELSE IF ~bonus.ok THEN Raise(bonus.err)
        ELSE Ok({Merge(job, [similarity_score |-> similarity_score,
                             bonus_score |-> bonus_score,
                             final_score |-> final_score,
                             match_explanation |-> explanation]) :
                   explanation \in
                     explain_match(user_profile_text, job_text, final_score)})

\* One iteration of the loop of search_jobs_by_query, lines 347-368
search_match_of(query, enhanced_query, job, embeds) ==
    LET projected == job_to_text(job)
        job_text == projected.val
        similarity_score == similarity_of(enhanced_query, job_text, embeds)
        bonus == calculate_query_bonus(query, job)
        query_bonus == bonus.val
        final_score == RAdd(similarity_score, query_bonus)
    IN  IF ~projected.ok THEN Raise(projected.err)
        ELSE IF ~bonus.ok THEN Raise(bonus.err)
        ELSE Ok({Merge(job, [similarity_score |-> similarity_score,
                             query_bonus |-> query_bonus,
                             final_score |-> final_score,
                             search_query |-> query,
                             match_explanation |-> explanation]) :
                   explanation \in
                     explain_match(enhanced_query, job_text, final_score)})

RECURSIVE Product(_)
\* the lists that take their i-th element from the i-th set
Product(sets) ==
    IF sets = <<>> THEN {<<>>}
    ELSE {<<h>> \o t : h \in Head(sets), t \in Product(Tail(sets))}

\* x goes before the elements whose final_score equals its own
InsertByScore_before_ties(sorted, x) ==
    LET k == Cardinality({i \in DOMAIN sorted :
                            RLt(x.final_score, sorted[i].final_score)})
    IN  SubSeq(sorted, 1, k) \o <<x>> \o SubSeq(sorted, k + 1, Len(sorted))

\* list.insert keeping the order of list.sort(key=final_score, reverse=True):
\* x goes after every element whose final_score is >= its own
InsertByScore(sorted, x) ==
    LET k == Cardinality({i \in DOMAIN sorted :
                            RLeq(x.final_score, sorted[i].final_score)})
    IN  SubSeq(sorted, 1, k) \o <<x>> \o SubSeq(sorted, k + 1, Len(sorted))

RECURSIVE SortFrom(_, _, _)
SortFrom(job_matches, i, sorted) ==
    IF i > Len(job_matches) THEN sorted
    ELSE SortFrom(job_matches, i + 1, InsertByScore(sorted, job_matches[i]))

\* the list is left in input order
sort_skipped(job_matches) == job_matches

\* job_matches.sort(key=lambda x: x['final_score'], reverse=True), line 163:
\* a stable sort
sort_by_final_score(job_matches) == SortFrom(job_matches, 1, <<>>)

\* the whole sorted list is returned, top_k ignored
rank_and_truncate_untruncated(job_matches, top_k) ==
    IF job_matches = <<>> THEN Raise("IndexError")
    ELSE Ok(sort_by_final_score(job_matches))

\* Lines 162-167 (and 370-375): sort, log the top score (job_matches[0]
\* raises IndexError on an empty list), return the first top_k
rank_and_truncate(job_matches, top_k) ==
    IF job_matches = <<>> THEN Raise("IndexError")
    ELSE Ok(Slice(sort_by_final_score(job_matches), top_k))

\* The loop reaches candidate i when no earlier iteration raised; an
\* iteration raises exactly when the projection of its job raises (the
\* bonus computations raise on a non-str skill only, and on such a job the
\* projection has raised before them).
Reached(jobs, i) == \A j \in 1..(i - 1) : job_to_text(jobs[j]).ok

\* The step of a candidate that the loop does not reach
NotReached == Ok({})

\* The loop over the candidates and the lines after it: the first step
\* that raises ends the call; otherwise job_matches holds one record per
\* candidate, in input order (kept as scored), and is ranked and truncated
loop_outcomes(steps, top_k) ==
    IF \E i \in DOMAIN steps : ~steps[i].ok
      THEN {Merge(Raise(steps[CHOOSE i \in DOMAIN steps :
                                  /\ ~steps[i].ok
                                  /\ \A j \in 1..(i - 1) : steps[j].ok].err),
                  [scored |-> <<>>])}
      ELSE {Merge(rank_and_truncate(job_matches, top_k),
                  [scored |-> job_matches]) :
              job_matches \in Product([i \in DOMAIN steps |-> steps[i].val])}

\* The embedding is computed for candidate i when a model is loaded, the
\* profile text is there, and the loop reaches line 144 for it.
Embedded(user_email, jobs, i) ==
    /\ model # "None"
    /\ get_user_profile_text(user_email).found
    /\ Reached(jobs, i)
    /\ job_to_text(jobs[i]).ok

\* The job texts that one call embeds
EmbeddedTexts(user_email, jobs) ==
    {job_to_text(jobs[i]).val :
        i \in {i \in DOMAIN jobs : Embedded(user_email, jobs, i)}}

\* What the embedding does for the job texts of one call: equal texts get
\* equal embeddings
EmbedChoices(user_email, jobs) ==
    [EmbeddedTexts(user_email, jobs) -> EmbedOutcomes]

NotApplied == [fn |-> "none"]

NoCall ==
    [op |-> "none", user |-> "", jobs |-> <<>>, top_k |-> 0, query |-> <<>>,
     embeds |-> [t \in {} |-> EmbedRaises],
     status |-> "none", error |-> "none", value |-> <<>>, scored |-> <<>>,
     found |-> FALSE, text |-> <<>>, profile |-> None, now |-> 0,
     left |-> <<>>]

\* the threads that call the matcher at the same time
Threads == {1, 2}

\* a thread outside get_user_profile_text
Outside ==
    [pc |-> "outside", user |-> "", profile |-> None, found |-> FALSE,
     text |-> <<>>, missed |-> FALSE, changed |-> FALSE]

NoThreads == [t \in Threads |-> Outside]

Init ==
    /\ profiles \in [Users -> Profiles \cup {None}]
    /\ now \in Times
    /\ model \in {"SentenceTransformer", "None"}
    /\ user_profile_cache = [u \in {} |-> <<>>]
    /\ last = NoCall
    /\ prev = NoCall
    /\ applied = NotApplied
    /\ threads = NoThreads

\* the scores are written into the job dicts of the caller
jobs_after_loop_scored_in_place(jobs, job_matches) ==
    IF job_matches = <<>> THEN jobs ELSE job_matches

\* the caller's list after the loop of match_jobs_to_user, lines 138-163:
\* `for job in jobs` reads each dict, job_match = {**job, ...} is a new dict
\* appended to the new list job_matches, and the sort is on job_matches
jobs_after_loop(jobs, job_matches) == jobs

\* match_jobs_to_user(user_email, jobs, top_k), lines 113-167
MatchJobsToUser(user_email, jobs, top_k, embeds) ==
    LET got == get_user_profile_text(user_email)
        steps == [i \in DOMAIN jobs |->
                    IF Reached(jobs, i)
                      THEN job_match_of(user_email, got.text, jobs[i], embeds)
                      ELSE NotReached]
        call == [NoCall EXCEPT !.op = "match_jobs_to_user",
                               !.user = user_email, !.jobs = jobs, !.left = jobs,
                               !.top_k = top_k, !.embeds = embeds,
                               !.found = got.found, !.text = got.text,
                               !.profile = get_user_profile(user_email),
                               !.now = now]
    IN  /\ user_profile_cache' = got.cache
        /\ IF ~got.found \/ got.text = <<>>
             THEN last' = [call EXCEPT !.status = "returned"]
             ELSE \E outcome \in loop_outcomes(steps, top_k) :
                    last' = [call EXCEPT
                               !.status = IF outcome.ok THEN "returned"
                                          ELSE "raised",
                               !.error = outcome.err,
                               !.value = outcome.val,
                               !.scored = outcome.scored,
                               !.left = jobs_after_loop(jobs, outcome.scored)]
        /\ prev' = last
        /\ UNCHANGED <<profiles, now, model, applied, threads>>

\* f"{user_profile_text}. Looking for: {query}", line 340
enhanced_query_of(user_profile_text, query) ==
    user_profile_text
      \o <<"."," ","L","o","o","k","i","n","g"," ","f","o","r",":"," ">>
      \o query

\* search_jobs_by_query(user_email, query, jobs, top_k), lines 321-375
SearchJobsByQuery(user_email, query, jobs, top_k, embeds) ==
    LET got == get_user_profile_text(user_email)
        enhanced_query == enhanced_query_of(got.text, query)
        steps == [i \in DOMAIN jobs |->
                    IF Reached(jobs, i)
                      THEN search_match_of(query, enhanced_query, jobs[i],
                                           embeds)
                      ELSE NotReached]
        call == [NoCall EXCEPT !.op = "search_jobs_by_query",
                               !.user = user_email, !.jobs = jobs, !.left = jobs,
                               !.top_k = top_k, !.query = query,
                               !.embeds = embeds,
                               !.found = got.found, !.text = got.text,
                               !.profile = get_user_profile(user_email),
                               !.now = now]
    IN  /\ user_profile_cache' = got.cache
        /\ IF ~got.found \/ got.text = <<>>
             THEN last' = [call EXCEPT !.status = "returned"]
             ELSE \E outcome \in loop_outcomes(steps, top_k) :
                    last' = [call EXCEPT
                               !.status = IF outcome.ok THEN "returned"
                                          ELSE "raised",
                               !.error = outcome.err,
                               !.value = outcome.val,
                               !.scored = outcome.scored]
        /\ prev' = last
        /\ UNCHANGED <<profiles, now, model, applied, threads>>

\* get_user_profile_text(user_email) called on its own, lines 56-75
GetUserProfileText(user_email) ==
    LET got == get_user_profile_text(user_email)
    IN  /\ user_profile_cache' = got.cache
        /\ last' = [NoCall EXCEPT !.op = "get_user_profile_text",
                                  !.user = user_email,
                                  !.status = "returned",
                                  !.found = got.found, !.text = got.text,
                                  !.profile = get_user_profile(user_email),
                                  !.now = now]
        /\ prev' = last
        /\ UNCHANGED <<profiles, now, model, applied, threads>>

\* The caller takes the outcome of the call; the matcher keeps its state.
TakeResult ==
    /\ last # NoCall
    /\ last' = NoCall
    /\ prev' = NoCall
    /\ UNCHANGED <<profiles, now, model, user_profile_cache, applied, threads>>

\* ResumeNeo4jStorage.store_complete_resume(user_email, insights),
\* resume_storage.py 22-68: the store now answers with this profile
StoreProfile(user_email, profile) ==
    /\ profiles[user_email] # profile
    /\ profiles' = [profiles EXCEPT ![user_email] = profile]
    /\ UNCHANGED <<now, model, user_profile_cache, last, prev, applied, threads>>

\* The store stops answering with a profile for the user: the node is
\* gone, or the query raises and get_user_profile returns None
\* (resume_storage.py 461-463, 497-499)
DropProfile(user_email) ==
    /\ profiles[user_email] # None
    /\ profiles' = [profiles EXCEPT ![user_email] = None]
    /\ UNCHANGED <<now, model, user_profile_cache, last, prev, applied, threads>>

\* Time passes between two calls.
Tick ==
    /\ \E t \in Times : t > now /\ now' = t
    /\ UNCHANGED <<profiles, model, user_profile_cache, last, prev, applied, threads>>

\* A call is made with fresh arguments once the caller has taken the
\* previous outcome, or match_jobs_to_user is called a second time with the
\* arguments of the call before; the embedding of a pair of texts already
\* embedded is the same.  The store changes between calls.
Next ==
    \/ /\ last = NoCall
       /\ \E u \in Users, jobs \in JobLists, k \in TopKs :
            \E embeds \in EmbedChoices(u, jobs) :
               MatchJobsToUser(u, jobs, k, embeds)
    \/ /\ last.op = "match_jobs_to_user"
       /\ prev = NoCall
       /\ \E embeds \in IF last.found THEN {last.embeds}
                          ELSE EmbedChoices(last.user, last.jobs) :
            MatchJobsToUser(last.user, last.jobs, last.top_k, embeds)
    \/ /\ last = NoCall
       /\ \E u \in Users, q \in Queries, jobs \in JobLists, k \in TopKs :
            \E embeds \in EmbedChoices(u, jobs) :
               SearchJobsByQuery(u, q, jobs, k, embeds)
    \/ /\ last = NoCall
       /\ \E u \in Users : GetUserProfileText(u)
    \/ TakeResult
    \/ /\ last = NoCall
       /\ \E u \in Users, p \in Profiles : StoreProfile(u, p)
    \/ /\ last = NoCall
       /\ \E u \in Users : DropProfile(u)
    \/ Tick

Spec == Init /\ [][Next]_vars

(***************************************************************************)
(* The scoring functions applied on their own                              *)
(***************************************************************************)

MaxWords == 2

Vocabulary == {<<"t","h","e">>, <<"T","h","e">>, <<"p","y","t","h","o","n">>,
               <<"s","q","l",",">>}

\* the texts of at most MaxWords words, and a text of blanks only
Texts ==
    {join(<<" ">>, words) :
        words \in UNION {[1..n -> Vocabulary] : n \in 0..MaxWords}}
    \cup {<<" "," ">>}

Cara ==
    [name |-> <<"C","a","r","a">>,
     experience_level |-> <<"e","n","t","r","y">>,
     skills |-> << [skill |-> <<"P","y","t","h","o","n">>],
                   [skill |-> <<"s","q","l">>],
                   [skill |-> <<"m","l">>],
                   [skill |-> <<"j","a","v","a">>] >>,
     domains |-> << [domain |-> <<"h","e","a","l","t","h","c","a","r","e">>],
                    [domain |-> <<"a","i">>],
                    [domain |-> <<"a","i","_","m","l">>] >>,
     projects |-> <<>>]

HealthcareIntern ==
    [title |-> <<"H","e","a","l","t","h","c","a","r","e"," ","A","I"," ","I",
                 "n","t","e","r","n">>,
     content |-> <<"p","y","t","h","o","n"," ","s","q","l"," ","m","l"," ",
                   "j","a","v","a">>,
     remote |-> TRUE,
     skills_mentioned |-> << <<"p","y","t","h","o","n">>, <<"s","q","l">>,
                             <<"m","l">>, <<"j","a","v","a">>,
                             <<"m","e","d","i","c","a","l">> >>,
     created_utc |-> PostTime]

\* the skills of Cara, a mid level, no domain
Dana ==
    [name |-> <<"D","a","n","a">>,
     experience_level |-> <<"m","i","d">>,
     skills |-> Cara.skills,
     domains |-> <<>>,
     projects |-> <<>>]

\* a senior without skills whose three domain names all occur in the text
\* of HealthcareIntern in lower case; none is a key of domain_keywords
Eli ==
    [name |-> <<"E","l","i">>,
     experience_level |-> <<"s","e","n","i","o","r">>,
     skills |-> <<>>,
     domains |-> << [domain |-> <<"H","e","a","l","t","h","c","a","r","e">>],
                    [domain |-> <<"a","i">>],
                    [domain |-> <<"m","l">>] >>,
     projects |-> <<>>]

ScoredProfiles == Profiles \cup {Cara, Dana, Eli}
ScoredJobs == JobPool \cup {HealthcareIntern}

\* titles and bodies of posts
PostTitles == {<<"P","y","t","h","o","n"," ","I","n","t","e","r","n">>,
               <<"S","e","n","i","o","r"," ","J","a","v","a"," ","A","r","c","h","i","t","e","c","t">>,
               <<"D","a","t","a"," ","A","n","a","l","y","s","t">>}
PostContents == {<<>>, <<"e","x","p","e","r","i","e","n","c","e","d",","," ","r","e","m","o","t","e">>}

\* a key of a dict that is absent or has one of the values
Optional(key, values) == {[k \in {} |-> <<>>]} \cup {key :> v : v \in values}

\* profiles with each field absent, empty or filled; one skill is named
\* with words that a clause of the projection also uses
ProjectedProfiles ==
    {Merge(n, Merge(x, Merge(e, Merge(f, Merge(s, Merge(d, p)))))) :
        n \in Optional("name", {<<"A","s","h","a">>}),
        x \in Optional("experience_level", {<<"m","i","d">>}),
        e \in Optional("education_level", {<<>>, <<"B","S">>}),
        f \in Optional("field_of_study", {<<"C","S">>}),
        s \in Optional("skills",
                       {<<>>, << [skill |-> <<"p","y","t","h","o","n">>] >>,
                        << [skill |-> <<"e","x","p","e","r","t","i","s","e"," ","i","n"," ","n","l","p">>] >>}),
        d \in Optional("domains", {<<>>, << [domain |-> <<"a","i","_","m","l">>] >>}),
        p \in Optional("projects", {<<>>, << [title |-> <<"w","e","b"," ","a","p","i">>] >>})}

\* a post on site whose body, once cleaned, is two characters longer than
\* the limit and is wrapped in newlines
LongPost ==
    [title |-> <<"W","e","b"," ","D","e","v">>,
     content |-> <<"\n">> \o [i \in 1..ContentLimit |-> "x"]
                  \o <<"y","z","\n">>,
     remote |-> FALSE,
     location |-> <<"P","u","n","e">>]

\* jobs to project: the scored ones, the long post on site and remote, a
\* job with an empty body and a non-remote job with an empty location
ProjectedJobs ==
    ScoredJobs \cup {LongPost, Merge(LongPost, [remote |-> TRUE]),
                     Merge(PythonIntern, [content |-> <<>>]),
                     Merge(JavaArchitect, [location |-> <<>>])}

Digits == <<"0","1","2","3","4","5","6","7","8","9">>

\* a name made of a letter and the decimal digits of i < 100
Numbered(letter, i) ==
    <<letter>> \o (IF i >= 10 THEN <<Digits[(i \div 10) + 1]>> ELSE <<>>)
               \o <<Digits[(i % 10) + 1]>>

\* a profile with two skills and two domains more than TopSkills, and two
\* projects more than TopProjects
Veteran ==
    [name |-> <<"V","e","r","a">>,
     experience_level |-> <<"s","e","n","i","o","r">>,
     skills |-> [i \in 1..(TopSkills + 2) |-> [skill |-> Numbered("s", i)]],
     domains |-> [i \in 1..(TopSkills + 2) |-> [domain |-> Numbered("d", i)]],
     projects |-> [i \in 1..(TopProjects + 2) |-> [title |-> Numbered("p", i)]]]

\* Veteran with exactly TopSkills skills and TopProjects projects
Seasoned ==
    Merge(Veteran, [skills |-> Slice(Veteran.skills, TopSkills),
                    projects |-> Slice(Veteran.projects, TopProjects)])

\* scores on and just above the thresholds of _explain_match, below the
\* lowest and above one
ExplainedScores ==
    {R(-26, 100), R(3, 10), R(31, 100), R(5, 10), R(51, 100), R(7, 10),
     R(71, 100), R(6, 5)}

\* two texts with six shared words longer than three characters (one in
\* another case), two stoplist words and a short word also shared
SixShared ==
    << <<"P","y","t","h","o","n"," ","d","j","a","n","g","o"," ","f","l",
         "a","s","k"," ","r","e","a","c","t"," ","d","o","c","k","e","r",
         " ","l","i","n","u","x"," ","w","i","t","h"," ","s","q","l"," ",
         "w","o","r","k">>,
       <<"p","y","t","h","o","n"," ","D","j","a","n","g","o"," ","f","l",
         "a","s","k"," ","r","e","a","c","t"," ","d","o","c","k","e","r",
         " ","l","i","n","u","x"," ","w","i","t","h"," ","s","q","l"," ",
         "w","o","r","k"," ","j","a","v","a">> >>

\* two texts sharing two stoplist words and a short word only
NoneShared ==
    << <<"w","i","t","h"," ","s","q","l"," ","w","o","r","k">>,
       <<"w","i","t","h"," ","s","q","l"," ","w","o","r","k">> >>

\* the calls of _explain_match: every score with the texts that share
\* nothing to list, the two scores at 0.7 with those that share six words
ExplainedCalls ==
    {<<NoneShared, score>> : score \in ExplainedScores}
      \cup {<<SixShared, score>> : score \in {R(7, 10), R(71, 100)}}

MaxLimit == 2
MaxSubreddits == 2

\* the first of the default subreddits, lines 111-113
Subreddits == <<"forhire", "hiring", "remotework">>

\* a recent post that passes the pre-filter and is extracted to the job
PostOf(job, embed) ==
    [kind |-> "post", created_utc |-> PostTime, likely |-> TRUE,
     job_data |-> job, embed |-> embed]

\* the listing raises here
ListingError == [kind |-> "error"]

\* what reddit lists for a subreddit: nothing; two relevant jobs around one
\* that is not; a relevant job and then an error; a post that is no job
\* post, one of 31 days, one that cannot be extracted, and a relevant job
Listings ==
    { <<>>,
      << PostOf(PythonIntern, EmbedCosine(R(3, 4))),
         PostOf(JavaArchitect, EmbedCosine(R(-1, 2))),
         PostOf(HealthcareIntern, EmbedCosine(R(3, 4))) >>,
      << PostOf(JavaArchitect, EmbedCosine(R(3, 4))), ListingError >>,
      << [PostOf(PythonIntern, EmbedCosine(R(3, 4))) EXCEPT !.likely = FALSE],
         [PostOf(PythonIntern, EmbedCosine(R(3, 4)))
            EXCEPT !.created_utc = PostTime - 24 * SecondsPerDay],
         [PostOf(PythonIntern, EmbedCosine(R(3, 4))) EXCEPT !.job_data = None],
         PostOf(HealthcareIntern, EmbedRaises) >> }

\* the listings of the subreddits scanned, at least one
ScannedListings == UNION {[1..n -> Listings] : n \in 1..MaxSubreddits}

InitScoring ==
    /\ profiles \in [Users -> ScoredProfiles \cup {None}]
    /\ now \in Times
    /\ model \in {"SentenceTransformer", "None"}
    /\ user_profile_cache = [u \in {} |-> <<>>]
    /\ last = NoCall
    /\ prev = NoCall
    /\ applied = NotApplied
    /\ threads = NoThreads

ApplyKeywordSimilarity(profile_text, job_text) ==
    /\ applied = NotApplied
    /\ applied' = [fn |-> "calculate_keyword_similarity",
                   profile_text |-> profile_text, job_text |-> job_text,
                   out |-> calculate_keyword_similarity(profile_text, job_text)]
    /\ UNCHANGED <<profiles, now, model, user_profile_cache, last, prev, threads>>

ApplyBonusScore(user_email, job) ==
    /\ applied = NotApplied
    /\ applied' = [fn |-> "calculate_bonus_score",
                   user_email |-> user_email, job |-> job,
                   out |-> calculate_bonus_score(user_email, job)]
    /\ UNCHANGED <<profiles, now, model, user_profile_cache, last, prev, threads>>

ApplyContextBonus(job_data, user_profile) ==
    /\ applied = NotApplied
    /\ applied' = [fn |-> "calculate_context_bonus",
                   job_data |-> job_data, user_profile |-> user_profile,
                   out |-> calculate_context_bonus(job_data, user_profile)]
    /\ UNCHANGED <<profiles, now, model, user_profile_cache, last, prev, threads>>

ApplyProfileToText(profile) ==
    /\ applied = NotApplied
    /\ applied' = [fn |-> "profile_to_text", profile |-> profile,
                   out |-> profile_to_text(profile)]
    /\ UNCHANGED <<profiles, now, model, user_profile_cache, last, prev, threads>>

\* out is the set of the strings the call can return
ApplyExplainMatch(profile_text, job_text, score) ==
    /\ applied = NotApplied
    /\ applied' = [fn |-> "explain_match", profile_text |-> profile_text,
                   job_text |-> job_text, score |-> score,
                   out |-> explain_match(profile_text, job_text, score)]
    /\ UNCHANGED <<profiles, now, model, user_profile_cache, last, prev, threads>>

\* scrape_intelligent_jobs of a scraper built for the user, whose profile
\* was loaded from the store (_load_user_profile, lines 72-82)
ApplyScrape(user_email, listings, limit_per_subreddit) ==
    /\ applied = NotApplied
    /\ applied' = [fn |-> "scrape_intelligent_jobs",
                   user_email |-> user_email, listings |-> listings,
                   limit_per_subreddit |-> limit_per_subreddit,
                   out |-> scrape_intelligent_jobs(
                             [user_email |-> user_email,
                              user_profile |-> get_user_profile(user_email)],
                             Subreddits, listings, limit_per_subreddit)]
    /\ UNCHANGED <<profiles, now, model, user_profile_cache, last, prev,
                   threads>>

ApplyJobToText(job) ==
    /\ applied = NotApplied
    /\ applied' = [fn |-> "job_to_text", job |-> job, out |-> job_to_text(job)]
    /\ UNCHANGED <<profiles, now, model, user_profile_cache, last, prev, threads>>

\* _calculate_relevance for a scraper whose user_profile is the profile and
\* whose search context is the profile text (_build_search_context with an
\* empty query, lines 158-168)
ApplyRelevance(job_data, user_profile, embed) ==
    /\ applied = NotApplied
    /\ applied' = [fn |-> "calculate_relevance",
                   job_data |-> job_data, user_profile |-> user_profile,
                   embed |-> embed,
                   out |-> calculate_relevance(job_data,
                                               profile_to_text(user_profile),
                                               user_profile, embed)]
    /\ UNCHANGED <<profiles, now, model, user_profile_cache, last, prev, threads>>

\* one iteration of the loop of match_jobs_to_user for a stored profile
ApplyJobMatch(user_email, job, embed) ==
    /\ applied = NotApplied
    /\ profiles[user_email] # None
    /\ applied' = [fn |-> "job_match_of", user_email |-> user_email,
                   job |-> job, embed |-> embed,
                   out |-> job_match_of(
                             user_email,
                             profile_to_text(profiles[user_email]), job,
                             [t \in {job_to_text(job).val} |-> embed])]
    /\ UNCHANGED <<profiles, now, model, user_profile_cache, last, prev, threads>>

\* _extract_job_info sets job_data['experience_level'] from the lowercased
\* title and body, intelligent_reddit_scraper.py lines 304-307
ApplyExtractExperienceLevel(title, content) ==
    /\ applied = NotApplied
    /\ applied' = [fn |-> "extract_experience_level",
                   title |-> title, content |-> content,
                   out |-> extract_experience_level(
                             lower(title \o <<" ">> \o content))]
    /\ UNCHANGED <<profiles, now, model, user_profile_cache, last, prev, threads>>

ApplyExtractJobInfo(title, content) ==
    /\ applied = NotApplied
    /\ applied' = [fn |-> "extract_job_info",
                   title |-> title, content |-> content,
                   out |-> extract_job_info(title, content)]
    /\ UNCHANGED <<profiles, now, model, user_profile_cache, last, prev, threads>>

NextScoring ==
    \/ \E title \in PostTitles, content \in PostContents :
          ApplyExtractExperienceLevel(title, content)
    \/ \E title \in PostTitles, content \in PostContents :
          ApplyExtractJobInfo(title, content)
    \/ \E job \in ScoredJobs, p \in ScoredProfiles, e \in EmbedOutcomes :
          ApplyRelevance(job, p, e)
    \/ \E u \in Users, job \in ScoredJobs, e \in EmbedOutcomes :
          ApplyJobMatch(u, job, e)
    \/ \E a \in Texts, b \in Texts : ApplyKeywordSimilarity(a, b)
    \/ \E p \in ProjectedProfiles \cup {Veteran, Seasoned} :
          ApplyProfileToText(p)
    \/ \E job \in ProjectedJobs : ApplyJobToText(job)
    \/ \E u \in Users, listings \in ScannedListings, limit \in 0..MaxLimit :
          ApplyScrape(u, listings, limit)
    \/ \E call \in ExplainedCalls :
          ApplyExplainMatch(call[1][1], call[1][2], call[2])
    \/ \E u \in Users, job \in ScoredJobs : ApplyBonusScore(u, job)
    \/ \E job \in ScoredJobs, p \in ScoredProfiles : ApplyContextBonus(job, p)

SpecScoring == InitScoring /\ [][NextScoring]_vars

(***************************************************************************)
(* get_user_profile_text called by several threads: the steps of one call   *)
(* are the cache lookup, the read of the store and the write of the cache. *)
(* A thread's record holds what the call has in its locals, whether it     *)
(* missed the cache, and whether the store changed during the call or      *)
(* during a call that it overlaps.                                         *)
(***************************************************************************)

InitConcurrent ==
    /\ profiles \in [Users -> Profiles \cup {None}]
    /\ now = PostTime
    /\ model = "SentenceTransformer"
    /\ user_profile_cache = [u \in {} |-> <<>>]
    /\ last = NoCall
    /\ prev = NoCall
    /\ applied = NotApplied
    /\ threads = NoThreads

\* thread t enters get_user_profile_text(user_email); its call overlaps
\* the calls that have not been left, and the store has changed for it when
\* it had for one of them
Call(t, user_email) ==
    /\ threads[t].pc = "outside"
    /\ threads' =
         [threads EXCEPT ![t] =
            [Outside EXCEPT !.pc = "lookup", !.user = user_email,
                            !.changed = \E o \in Threads :
                                           /\ threads[o].user = user_email
                                           /\ threads[o].changed]]
    /\ UNCHANGED <<profiles, now, model, user_profile_cache, last, prev,
                   applied>>

\* if user_email in self.user_profile_cache: return
\* self.user_profile_cache[user_email], lines 60-61
LookupCache(t) ==
    /\ threads[t].pc = "lookup"
    /\ threads' =
         [threads EXCEPT ![t] =
            IF threads[t].user \in DOMAIN user_profile_cache
              THEN [@ EXCEPT !.pc = "returned", !.found = TRUE,
                             !.text = user_profile_cache[threads[t].user]]
              ELSE [@ EXCEPT !.pc = "read", !.missed = TRUE]]
    /\ UNCHANGED <<profiles, now, model, user_profile_cache, last, prev,
                   applied>>

\* a not-found answer is cached as an empty text
ReadStore_caching_not_found(t) ==
    /\ threads[t].pc = "read"
    /\ threads' =
         [threads EXCEPT ![t] =
            IF get_user_profile(threads[t].user) = None
              THEN [@ EXCEPT !.pc = "returned", !.found = FALSE]
              ELSE [@ EXCEPT !.pc = "write",
                             !.profile = get_user_profile(threads[t].user)]]
    /\ user_profile_cache' =
         IF get_user_profile(threads[t].user) = None
           THEN cache_put(user_profile_cache, threads[t].user, <<>>)
           ELSE user_profile_cache
    /\ UNCHANGED <<profiles, now, model, last, prev, applied>>

\* profile = self.resume_storage.get_user_profile(user_email);
\* if not profile: return None, lines 64-66
ReadStore(t) ==
    /\ threads[t].pc = "read"
    /\ threads' =
         [threads EXCEPT ![t] =
            IF get_user_profile(threads[t].user) = None
              THEN [@ EXCEPT !.pc = "returned", !.found = FALSE]
              ELSE [@ EXCEPT !.pc = "write",
                             !.profile = get_user_profile(threads[t].user)]]
    /\ UNCHANGED <<profiles, now, model, user_profile_cache, last, prev,
                   applied>>

\* profile_text = self._profile_to_text(profile);
\* self.user_profile_cache[user_email] = profile_text; return profile_text,
\* lines 70-75
WriteCache(t) ==
    /\ threads[t].pc = "write"
    /\ LET profile_text == profile_to_text(threads[t].profile)
       IN  /\ user_profile_cache' =
                 cache_put(user_profile_cache, threads[t].user, profile_text)
           /\ threads' = [threads EXCEPT ![t] =
                             [@ EXCEPT !.pc = "returned", !.found = TRUE,
                                       !.text = profile_text]]
    /\ UNCHANGED <<profiles, now, model, last, prev, applied>>

\* the caller of thread t takes the outcome
Leave(t) ==
    /\ threads[t].pc = "returned"
    /\ threads' = [threads EXCEPT ![t] = Outside]
    /\ UNCHANGED <<profiles, now, model, user_profile_cache, last, prev,
                   applied>>

\* the store changes its answer for the user while threads may be inside a
\* call for that user (store_complete_resume, or a not-found answer of
\* get_user_profile, resume_storage.py 22-68, 461-463, 497-499)
ChangeStore(user_email, answer) ==
    /\ profiles[user_email] # answer
    /\ profiles' = [profiles EXCEPT ![user_email] = answer]
    /\ threads' = [t \in Threads |->
                     IF threads[t].pc # "outside" /\ threads[t].user = user_email
                       THEN [threads[t] EXCEPT !.changed = TRUE]
                       ELSE threads[t]]
    /\ UNCHANGED <<now, model, user_profile_cache, last, prev, applied>>

NextConcurrent ==
    \/ \E t \in Threads, u \in Users : Call(t, u)
    \/ \E t \in Threads : LookupCache(t)
    \/ \E t \in Threads : ReadStore(t)
    \/ \E t \in Threads : WriteCache(t)
    \/ \E t \in Threads : Leave(t)
    \/ \E u \in Users, answer \in Profiles \cup {None} : ChangeStore(u, answer)

SpecConcurrent == InitConcurrent /\ [][NextConcurrent]_vars

(***************************************************************************)
(* Properties                                                              *)
(***************************************************************************)

MatchKeys == {"similarity_score", "bonus_score", "final_score",
              "match_explanation"}

IsMatch == last.op = "match_jobs_to_user"
IsSearch == last.op = "search_jobs_by_query"
Returned == last.status = "returned"

\* the result record is the job's fields plus the four score fields
CarriesJob(result, job) ==
    /\ DOMAIN result = DOMAIN job \cup MatchKeys
    /\ \A key \in DOMAIN job : result[key] = job[key]

\* the job a match_jobs_to_user result was built from
JobOf(result) == [key \in DOMAIN result \ MatchKeys |-> result[key]]

Injective(f) == \A i, j \in DOMAIN f : i # j => f[i] # f[j]

\* the lowercased, whitespace-split, stop-word-filtered tokens of a text
Tokens(text) == ToSet(split(lower(text))) \ stop_words

\* C1: for a user whose profile exists, a non-empty job list and top_k >= 0,
\* match_jobs_to_user returns at most min(top_k, len(jobs)) results, each
\* one a distinct position of the job list carrying that job's fields.
C1_ResultsAreDistinctJobs ==
    (IsMatch /\ Returned /\ last.profile # None /\ last.jobs # <<>>
        /\ last.top_k >= 0)
    => /\ Len(last.value) <= last.top_k
       /\ Len(last.value) <= Len(last.jobs)
       /\ \E pos \in [DOMAIN last.value -> DOMAIN last.jobs] :
            /\ Injective(pos)
            /\ \A i \in DOMAIN last.value :
                 CarriesJob(last.value[i], last.jobs[pos[i]])

\* C1 happens: two candidates ranked, top_k = 1 keeps one of them
C1_Witness ==
    /\ IsMatch /\ Returned /\ last.profile # None
    /\ Len(last.jobs) = 2 /\ last.top_k = 1 /\ Len(last.value) = 1

\* C2: the list returned by match_jobs_to_user and search_jobs_by_query is in
\* non-increasing order of final_score, and every scored candidate that the
\* truncation left out scores no more than the last one returned.
C2_SortedByFinalScore ==
    ((IsMatch \/ IsSearch) /\ Returned /\ last.found)
    => /\ \A i \in 1..(Len(last.value) - 1) :
            RLeq(last.value[i + 1].final_score, last.value[i].final_score)
       /\ last.value # <<>> =>
            \E pos \in [DOMAIN last.value -> DOMAIN last.scored] :
               /\ Injective(pos)
               /\ \A i \in DOMAIN last.value :
                    last.value[i] = last.scored[pos[i]]
               /\ \A j \in DOMAIN last.scored :
                    (\A i \in DOMAIN last.value : pos[i] # j)
                    => RLeq(last.scored[j].final_score,
                            last.value[Len(last.value)].final_score)

\* C2 happens: the second candidate scored higher than the first, and a
\* non-empty list came back
C2_Witness ==
    /\ IsMatch \/ IsSearch
    /\ Returned /\ last.value # <<>> /\ Len(last.scored) = 2
    /\ RLt(last.scored[1].final_score, last.scored[2].final_score)

\* C3: with an empty candidate list and a stored profile, match_jobs_to_user
\* and search_jobs_by_query return an empty list and raise nothing.
C3_EmptyListReturnsEmpty ==
    ((IsMatch \/ IsSearch) /\ last.profile # None /\ last.jobs = <<>>)
    => (Returned /\ last.value = <<>>)

\* C4: when the store has no profile for the user, the outcome of
\* match_jobs_to_user is never an empty-but-successful list.
C4_NoProfileIsSignalled ==
    (IsMatch /\ ~last.found)
    => ~(Returned /\ last.value = <<>>)

\* the outcome the caller of C4 cannot tell apart: a stored profile, a
\* non-empty job list and top_k = 0 return the same empty list
C4_SameAsRankingNothing ==
    IsMatch /\ last.found /\ last.jobs # <<>> /\ Returned /\ last.value = <<>>

\* C5: whatever sub-bonuses fire, the bonus of _calculate_bonus_score and of
\* _calculate_context_bonus lies between 0.0 and 0.30.
C5_BonusWithinCap ==
    (/\ applied.fn \in {"calculate_bonus_score", "calculate_context_bonus"}
     /\ applied.out.ok)
    => /\ RLeq(Zero, applied.out.val)
       /\ RLeq(applied.out.val, R(30, 100))

\* C5 happens: the sub-bonuses of _calculate_context_bonus sum to more than
\* 0.30 and the result is 0.30
C5_Witness ==
    /\ applied.fn = "calculate_context_bonus"
    /\ applied.job_data = HealthcareIntern /\ applied.user_profile = Cara
    /\ applied.out.ok /\ REq(applied.out.val, R(30, 100))

\* order and scores of a result list, the explanation strings left out
Ranking(value) ==
    [i \in DOMAIN value |->
        [key \in DOMAIN value[i] \ {"match_explanation"} |-> value[i][key]]]

\* last repeats the match_jobs_to_user call of prev, the stored profile
\* being the same at both calls
SameCallTwice ==
    /\ prev.op = "match_jobs_to_user" /\ IsMatch
    /\ prev.user = last.user /\ prev.jobs = last.jobs
    /\ prev.top_k = last.top_k
    /\ prev.profile = last.profile

\* the job is less than seven days old at time t
PostedWithinWeek(job, t) ==
    /\ "created_utc" \in DOMAIN job
    /\ job.created_utc # 0
    /\ t - job.created_utc < RecentDays * SecondsPerDay

\* C6 as claimed: two match_jobs_to_user calls with the same arguments and
\* the stored profile unchanged give the same order and the same scores,
\* whenever they are made.
C6_SameResultWheneverCalled ==
    SameCallTwice
    => /\ prev.status = last.status
       /\ Ranking(prev.value) = Ranking(last.value)

\* C6 amended: they give the same order and the same scores when every
\* candidate is on the same side of the seven-day recency limit at both
\* calls.
C6_SameResultAtSameAge ==
    (/\ SameCallTwice
     /\ \A i \in DOMAIN last.jobs :
          PostedWithinWeek(last.jobs[i], prev.now)
            <=> PostedWithinWeek(last.jobs[i], last.now))
    => /\ prev.status = last.status
       /\ Ranking(prev.value) = Ranking(last.value)

\* C6 happens: the same call made at two different times, its candidates
\* without a timestamp, a non-empty ranking returned
C6_Witness ==
    /\ SameCallTwice
    /\ prev.now # last.now
    /\ \A i \in DOMAIN last.jobs :
          PostedWithinWeek(last.jobs[i], prev.now)
            <=> PostedWithinWeek(last.jobs[i], last.now)
    /\ Returned /\ last.value # <<>>

\* C7: every similarity_score lies in [0, 1], with an embedding model and
\* without.
C7_SimilarityInUnitInterval ==
    ((IsMatch \/ IsSearch) /\ Returned)
    => \A i \in DOMAIN last.value :
          /\ RLeq(Zero, last.value[i].similarity_score)
          /\ RLeq(last.value[i].similarity_score, One)

\* C8: without an embedding model, the similarity_score of a candidate is
\* |A n B| / |A u B| over the token sets of the profile text and of the job
\* text, and 0.0 when both are empty.
C8_FallbackIsJaccard ==
    (IsMatch /\ Returned /\ model = "None")
    => \A i \in DOMAIN last.value :
          LET A == Tokens(last.text)
              B == Tokens(job_to_text(JobOf(last.value[i])).val)
              score == last.value[i].similarity_score
          IN  IF A \cup B = {}
                THEN REq(score, Zero)
                ELSE score.n * Cardinality(A \cup B)
                       = Cardinality(A \cap B) * score.d

\* C8 happens: a candidate ranked without a model shares a token with the
\* profile text
C8_Witness ==
    /\ IsMatch /\ Returned /\ model = "None"
    /\ \E i \in DOMAIN last.value :
          RLt(Zero, last.value[i].similarity_score)

IsSelfSimilarity ==
    /\ applied.fn = "calculate_keyword_similarity"
    /\ applied.profile_text = applied.job_text

\* C9 as claimed: _calculate_keyword_similarity(A, A) is 1.0 for every
\* non-empty text A.
C9_SelfSimilarityIsOne ==
    (IsSelfSimilarity /\ applied.profile_text # <<>>)
    => REq(applied.out, One)

\* C9 amended: _calculate_keyword_similarity(A, A) is 1.0 for every text A
\* with a token that is not a stop word, and 0.0 for a text without one.
C9_SelfSimilarityOfKeywords ==
    IsSelfSimilarity
    => IF Tokens(applied.profile_text) # {}
         THEN REq(applied.out, One)
         ELSE REq(applied.out, Zero)

\* C9 happens: a text with a keyword compared with itself
C9_Witness ==
    /\ IsSelfSimilarity
    /\ Tokens(applied.profile_text) # {}
    /\ REq(applied.out, One)
    /\ \E i \in DOMAIN applied.profile_text :
          applied.profile_text[i] \in ToSet(UpperChars)

\* C10: for a user whose profile exists, match_jobs_to_user does not raise
\* on a non-empty job list, and every candidate of the list is scored.
C10_NoCandidateAbortsTheCall ==
    (IsMatch /\ last.profile # None /\ last.jobs # <<>>)
    => (Returned /\ Len(last.scored) = Len(last.jobs))

\* what the embedding did for candidate i of the last call
EmbedOf(i) == last.embeds[job_to_text(last.jobs[i]).val]

\* C11: when the embedding raises for a candidate, the call still returns,
\* that candidate's similarity_score is 0.0, and every other candidate keeps
\* the cosine of its own embedding.
C11_EmbeddingFailureScoresZero ==
    (/\ IsMatch /\ last.found /\ model # "None" /\ last.jobs # <<>>
     /\ \A i \in DOMAIN last.jobs : job_to_text(last.jobs[i]).ok)
    => /\ Returned
       /\ Len(last.scored) = Len(last.jobs)
       /\ \A i \in DOMAIN last.scored :
            /\ CarriesJob(last.scored[i], last.jobs[i])
            /\ IF EmbedOf(i).raises
                 THEN REq(last.scored[i].similarity_score, Zero)
                 ELSE REq(last.scored[i].similarity_score, EmbedOf(i).cos)

\* C11 happens: of two candidates the embedding raised for one and gave a
\* cosine for the other
C11_Witness ==
    /\ IsMatch /\ Returned /\ model # "None" /\ Len(last.scored) = 2
    /\ \E i, j \in DOMAIN last.jobs :
          /\ EmbedOf(i).raises
          /\ ~EmbedOf(j).raises
          /\ REq(last.scored[i].similarity_score, Zero)
          /\ RLt(Zero, last.scored[j].similarity_score)

\* the text the candidates of the last call were compared with
ComparedText ==
    IF IsSearch THEN enhanced_query_of(last.text, last.query) ELSE last.text

\* the last call ranked by the lexical fallback: every scored candidate has
\* the keyword similarity of its job text, and the call raised only on an
\* empty job list or on a job record that cannot be projected
ScoredByFallback ==
    ((IsMatch \/ IsSearch) /\ last.found)
    => /\ ~Returned =>
            \/ last.jobs = <<>>
            \/ \E i \in DOMAIN last.jobs : ~job_to_text(last.jobs[i]).ok
       /\ \A i \in DOMAIN last.scored :
            /\ \A key \in DOMAIN last.jobs[i] :
                 last.scored[i][key] = last.jobs[i][key]
            /\ last.scored[i].similarity_score
                 = calculate_keyword_similarity(
                      ComparedText, job_to_text(last.jobs[i]).val)

\* C12: a matcher constructed without an embedding model keeps model None
\* through every operation, and each match_jobs_to_user and
\* search_jobs_by_query call it serves is scored by the lexical fallback, the
\* missing model never being the reason a call raises.
C12_NoModelMeansFallbackForGood ==
    /\ [][model = "None" => model' = "None"]_vars
    /\ [](model = "None" => ScoredByFallback)

\* C12 happens: without a model, a search returned a candidate sharing a
\* token with the enhanced query
C12_Witness ==
    /\ model = "None" /\ IsSearch /\ Returned
    /\ \E i \in DOMAIN last.value :
          RLt(Zero, last.value[i].similarity_score)

SkilledIn == <<"s","k","i","l","l","e","d"," ","i","n">>
ExpertiseIn == <<"e","x","p","e","r","t","i","s","e"," ","i","n">>
ProjectsLike == <<"p","r","o","j","e","c","t","s"," ","l","i","k","e">>
DegreeIn == <<" ","d","e","g","r","e","e"," ","i","n"," ">>

\* the field of the profile is a non-empty list (or string)
Filled(profile, key) == Get(profile, key, <<>>) # <<>>

\* the values of the profile that the projection copies into the text
CopiedValues(profile) ==
    {Get(profile, "name", <<>>), Get(profile, "experience_level", <<>>),
     Get(profile, "education_level", <<>>),
     Get(profile, "field_of_study", <<>>)}
    \cup {item.skill : item \in ToSet(Get(profile, "skills", <<>>))}
    \cup {item.domain : item \in ToSet(Get(profile, "domains", <<>>))}
    \cup {item.title : item \in ToSet(Get(profile, "projects", <<>>))}

\* no copied value is itself worded like one of the clauses
PlainValues(profile) ==
    \A v \in CopiedValues(profile), phrase \in {SkilledIn, ExpertiseIn,
                                               ProjectsLike, DegreeIn} :
        ~Contains(v, phrase)

\* each clause is in the text exactly when its source is there
ClausesFollowLists(profile, text) ==
    /\ Contains(text, SkilledIn) <=> Filled(profile, "skills")
    /\ Contains(text, ExpertiseIn) <=> Filled(profile, "domains")
    /\ Contains(text, ProjectsLike) <=> Filled(profile, "projects")
    /\ Contains(text, DegreeIn)
         <=> (Filled(profile, "education_level")
                /\ Filled(profile, "field_of_study"))

C14_TiesKeepInputOrder ==
    (IsMatch /\ Returned /\ last.found)
    => \E pos \in [DOMAIN last.value -> DOMAIN last.scored] :
          /\ Injective(pos)
          /\ \A i \in DOMAIN last.value :
               /\ last.value[i] = last.scored[pos[i]]
               /\ CarriesJob(last.value[i], last.jobs[pos[i]])
          /\ \A i, j \in DOMAIN last.value :
               (i < j /\ REq(last.value[i].final_score,
                             last.value[j].final_score))
               => pos[i] < pos[j]

\* C14 happens: two different jobs with the same final_score are returned
C14_Witness ==
    /\ IsMatch /\ Returned /\ Len(last.value) = 2
    /\ JobOf(last.value[1]) # JobOf(last.value[2])
    /\ REq(last.value[1].final_score, last.value[2].final_score)

\* C15: for a user whose profile exists and a non-empty job list,
\* match_jobs_to_user with top_k >= len(jobs) returns exactly len(jobs)
\* results: no candidate is dropped.
C15_NoCandidateDropped ==
    (/\ IsMatch /\ last.profile # None /\ last.jobs # <<>>
     /\ last.top_k >= Len(last.jobs))
    => (Returned /\ Len(last.value) = Len(last.jobs))

\* every record of a loop iteration has final_score = similarity + bonus
MatchScoreIsSum ==
    (applied.fn = "job_match_of" /\ applied.out.ok)
    => \A job_match \in applied.out.val :
          job_match.final_score
            = RAdd(job_match.similarity_score, job_match.bonus_score)

\* similarity and bonus of the candidate that _calculate_relevance scored
\* with the embedding model
RelevanceSum ==
    RAdd(calculate_semantic_similarity(applied.embed),
         calculate_context_bonus(applied.job_data, applied.user_profile).val)

ScoredWithModel ==
    /\ applied.fn = "calculate_relevance" /\ model # "None"
    /\ job_to_text(applied.job_data).ok
    /\ calculate_context_bonus(applied.job_data, applied.user_profile).ok

\* C16 as claimed: the final score is similarity + bonus with no cap on the
\* sum, for the records of match_jobs_to_user and for the relevance of
\* _calculate_relevance.
C16_ScoreIsUncappedSum ==
    /\ MatchScoreIsSum
    /\ ScoredWithModel => REq(applied.out.val, RelevanceSum)

\* C16 amended: the final_score of match_jobs_to_user is similarity + bonus
\* with no cap and can exceed 1.0; the relevance of _calculate_relevance
\* with a model is min(similarity + bonus, 1.0).
C16_ScoreIsSumRelevanceCapped ==
    /\ MatchScoreIsSum
    /\ ScoredWithModel
         => /\ applied.out.ok
            /\ IF RLeq(RelevanceSum, One)
                 THEN REq(applied.out.val, RelevanceSum)
                 ELSE REq(applied.out.val, One)

\* C16 happens: similarity 0.75 and bonus 0.30 give the relevance 1.0
C16_Witness ==
    /\ ScoredWithModel
    /\ RLt(One, RelevanceSum)
    /\ REq(applied.out.val, One)

\* the final_score of a match_jobs_to_user record exceeds 1.0
C16_MatchScoreAboveOne ==
    /\ applied.fn = "job_match_of" /\ applied.out.ok
    /\ \E job_match \in applied.out.val : RLt(One, job_match.final_score)

ExperienceLevels == {<<"e","n","t","r","y">>, <<"m","i","d">>, <<"s","e","n","i","o","r">>}

\* C17: the experience_level of the job records that the candidate sources
\* produce (_extract_experience_level, RedditJobScraper.extract_job_info) is
\* one of entry, mid, senior.
C17_ExperienceLevelInEnum ==
    /\ applied.fn = "extract_experience_level"
         => applied.out \in ExperienceLevels
    /\ applied.fn = "extract_job_info"
         => applied.out.experience_level \in ExperienceLevels

\* the job, not remote
NotRemote(job) == Merge(job, [remote |-> FALSE])

\* the experience level that the bonus computations read from a profile
LevelOf(profile) == Get(profile, "experience_level", <<"e","n","t","r","y">>)

\* C18: a remote job earns no remote sub-bonus for a profile whose level is
\* not entry: its bonus is the bonus of the same job when not remote, for
\* _calculate_bonus_score and for _calculate_context_bonus.
C18_RemoteBonusOnlyForEntry ==
    /\ (/\ applied.fn = "calculate_bonus_score"
        /\ profiles[applied.user_email] # None
        /\ LevelOf(profiles[applied.user_email]) # <<"e","n","t","r","y">>)
       => applied.out
            = calculate_bonus_score(applied.user_email, NotRemote(applied.job))
    /\ (/\ applied.fn = "calculate_context_bonus"
        /\ LevelOf(applied.user_profile) # <<"e","n","t","r","y">>)
       => applied.out
            = calculate_context_bonus(NotRemote(applied.job_data),
                                      applied.user_profile)

\* an entry of the cache stays as it is
CacheEntriesKept ==
    \A u \in DOMAIN user_profile_cache :
        /\ u \in DOMAIN user_profile_cache'
        /\ user_profile_cache'[u] = user_profile_cache[u]

\* a call for a user with a cache entry found a text, the cached one
CallUsedCachedText ==
    (/\ last.op \in {"get_user_profile_text", "match_jobs_to_user",
                     "search_jobs_by_query"}
     /\ last.user \in DOMAIN user_profile_cache)
    => (last.found /\ last.text = user_profile_cache[last.user])

\* C19: no operation changes or removes a cache entry, and every
\* get_user_profile_text, match_jobs_to_user and search_jobs_by_query call
\* for a cached user uses the cached text, whatever the store holds by then.
C19_CachedTextIsKeptAndUsed ==
    /\ [][CacheEntriesKept]_vars
    /\ []CallUsedCachedText

\* C19 happens: a call returned the cached text of a profile that the
\* store has replaced or lost since
C19_Witness ==
    /\ IsMatch \/ IsSearch
    /\ Returned /\ last.value # <<>>
    /\ last.profile = None
         \/ last.text # profile_to_text(last.profile)

\* the job, no skill mentioned
NoSkills(job) == Merge(job, [skills_mentioned |-> <<>>])

\* the number of distinct skill names, compared in lower case, that the
\* profile's skills and the job's skills_mentioned share
SharedSkills(job, profile) ==
    LET skills == Get(profile, "skills", <<>>)
        mentioned == Get(job, "skills_mentioned", <<>>)
    IN  Cardinality({lower(skills[i].skill) : i \in DOMAIN skills}
                      \cap {lower(mentioned[i]) : i \in DOMAIN mentioned})

\* min(5 n, 15), in hundredths
SkillShare(n) == IF n >= 3 THEN 15 ELSE 5 * n

\* C20: the skills of a job add min(0.05 n, 0.15) to its context bonus, n
\* the number of skill names it shares with the profile: the bonus is that
\* of the job without skills plus this share, up to the cap of 0.30.
C20_SkillOverlapBonus ==
    (applied.fn = "calculate_context_bonus" /\ applied.out.ok)
    => LET others == calculate_context_bonus(NoSkills(applied.job_data),
                                             applied.user_profile).val.n
           share == SkillShare(SharedSkills(applied.job_data,
                                            applied.user_profile))
       IN  applied.out.val
             = Hundredths(IF others + share < BonusCap THEN others + share
                          ELSE BonusCap)

\* C20 happens: four shared skills, one of them in another case, add 0.15
C20_Witness ==
    /\ applied.fn = "calculate_context_bonus" /\ applied.out.ok
    /\ SharedSkills(applied.job_data, applied.user_profile) = 4
    /\ applied.out.val = Hundredths(15)

\* the profile without its domains
NoDomains(profile) == Merge(profile, [domains |-> <<>>])

\* the number of distinct domain names of the profile, in lower case, that
\* occur in the lowercased title and body of the job
DomainsInText(job, profile) ==
    LET domains == Get(profile, "domains", <<>>)
        text == lower(job["title"] \o <<" ">> \o job["content"])
    IN  Cardinality({d \in {lower(domains[i].domain) : i \in DOMAIN domains} :
                       Contains(text, d)})

\* the indices of the profile's domains that are keys of the keyword table
\* with a keyword occurring in the job's joined, lowercased skills
DomainsByKeyword(job, profile) ==
    LET domains == Get(profile, "domains", <<>>)
        joined == lower(join(<<" ">>, Get(job, "skills_mentioned", <<>>)))
    IN  {i \in DOMAIN domains :
           \E t \in DOMAIN domain_keywords :
              /\ domain_keywords[t].domain = domains[i].domain
              /\ \E k \in DOMAIN domain_keywords[t].keywords :
                    Contains(joined, domain_keywords[t].keywords[k])}

\* the sum of two sub-bonuses under the cap of 0.30, in hundredths
UnderBonusCap(a, b) == Hundredths(IF a + b < BonusCap THEN a + b ELSE BonusCap)

\* C21: the domains of a profile add 0.08 per domain matched in the job text,
\* at most 0.16, to the context bonus; they add a flat 0.08 to the bonus
\* score when at least one of them is a key of the keyword table with a
\* keyword among the job's skills, however many match, and nothing when
\* none is; each up to the cap of 0.30.
C21_DomainBonus ==
    /\ (applied.fn = "calculate_context_bonus" /\ applied.out.ok)
       => LET others == calculate_context_bonus(
                            applied.job_data,
                            NoDomains(applied.user_profile)).val.n
              m == DomainsInText(applied.job_data, applied.user_profile)
          IN  applied.out.val
                = UnderBonusCap(others, IF m >= 2 THEN 16 ELSE 8 * m)
    /\ (/\ applied.fn = "calculate_bonus_score" /\ applied.out.ok
        /\ profiles[applied.user_email] # None)
       => LET others == calculate_bonus_score(applied.user_email,
                                              NoSkills(applied.job)).val.n
              matched == DomainsByKeyword(applied.job,
                                          profiles[applied.user_email])
          IN  applied.out.val
                = UnderBonusCap(others, IF matched = {} THEN 0 ELSE 8)

\* C21 happens: three domains matched in the text add 0.16, not 0.24
C21_Witness ==
    /\ applied.fn = "calculate_context_bonus" /\ applied.out.ok
    /\ DomainsInText(applied.job_data, applied.user_profile) = 3
    /\ applied.out.val = Hundredths(16)

\* C21 happens on the other path too: two domains matched through the
\* keyword table, and a third that is no key of it, add 0.08 once
C21_FirstMatchOnly ==
    /\ applied.fn = "calculate_bonus_score" /\ applied.out.ok
    /\ profiles[applied.user_email] # None
    /\ Cardinality(DomainsByKeyword(applied.job,
                                    profiles[applied.user_email])) = 2
    /\ Len(profiles[applied.user_email].domains) = 3
    /\ applied.out.val
         = UnderBonusCap(calculate_bonus_score(applied.user_email,
                                               NoSkills(applied.job)).val.n, 8)
    /\ applied.out.val.n < BonusCap

\* the job without its creation timestamp
Undated(job) == [k \in DOMAIN job \ {"created_utc"} |-> job[k]]

\* C22: the bonus score of a job is that of the same job without a
\* timestamp plus 0.03, up to the cap of 0.30, exactly when the job has a
\* non-zero timestamp less than seven days before the moment of scoring;
\* otherwise the timestamp adds nothing.
C22_RecencyBonus ==
    (/\ applied.fn = "calculate_bonus_score" /\ applied.out.ok
     /\ profiles[applied.user_email] # None)
    => LET others == calculate_bonus_score(applied.user_email,
                                           Undated(applied.job)).val.n
       IN  applied.out.val
             = UnderBonusCap(others, IF PostedWithinWeek(applied.job, now)
                                       THEN 3 ELSE 0)

\* C22 happens: a job posted one second less than seven days ago earns 0.03
C22_Witness ==
    /\ applied.fn = "calculate_bonus_score" /\ applied.out.ok
    /\ profiles[applied.user_email] # None
    /\ "created_utc" \in DOMAIN applied.job
    /\ now - applied.job.created_utc = RecentDays * SecondsPerDay - 1
    /\ applied.out.val.n < BonusCap
    /\ applied.out.val.n
         = calculate_bonus_score(applied.user_email,
                                 Undated(applied.job)).val.n + 3

\* C22 happens at the boundary too: a job posted exactly seven days ago
\* earns what the same job without a timestamp earns
C22_SevenDaysOld ==
    /\ applied.fn = "calculate_bonus_score" /\ applied.out.ok
    /\ profiles[applied.user_email] # None
    /\ "created_utc" \in DOMAIN applied.job
    /\ now - applied.job.created_utc = RecentDays * SecondsPerDay
    /\ applied.out.val.n > 0
    /\ applied.out
         = calculate_bonus_score(applied.user_email, Undated(applied.job))

\* the job without one of its keys
Without(job, key) == [k \in DOMAIN job \ {key} |-> job[k]]

\* the body of the job with newlines replaced by spaces, stripped
CleanBody(job) == strip(replace_newlines(Get(job, "content", <<>>)))

RemoteClause ==
    <<"."," ","R","e","m","o","t","e"," ","w","o","r","k"," ","a","v","a","i",
      "l","a","b","l","e">>

LocationClause(job) ==
    <<"."," ","L","o","c","a","t","i","o","n",":"," ">>
      \o Get(job, "location", <<>>)

\* the projected job text holds the first 500 characters of the cleaned body
\* and not the 501st, and a job with an empty body projects like the same
\* job without a body
BodyIsCleanedAndCut ==
    (applied.fn = "job_to_text" /\ applied.out.ok)
    => LET job == applied.job
           text == applied.out.val
       IN  /\ Get(job, "content", <<>>) # <<>>
               => /\ Contains(text, <<"."," ">> \o Slice(CleanBody(job),
                                                          ContentLimit))
                  /\ Len(CleanBody(job)) > ContentLimit
                       => ~Contains(text, Slice(CleanBody(job),
                                                ContentLimit + 1))
           /\ Get(job, "content", <<>>) = <<>>
               => applied.out = job_to_text(Without(job, "content"))

\* the remote clause is in the text of the applied job
EmitsRemote == Contains(applied.out.val, RemoteClause)

\* the location clause is in the text of the applied job
EmitsLocation ==
    /\ Get(applied.job, "location", <<>>) # <<>>
    /\ Contains(applied.out.val, LocationClause(applied.job))

\* remote wins, and the location clause is only for a non-remote job with a
\* location
RemoteWinsOverLocation ==
    (applied.fn = "job_to_text" /\ applied.out.ok)
    => /\ EmitsRemote <=> Get(applied.job, "remote", FALSE)
       /\ EmitsLocation <=> (/\ ~Get(applied.job, "remote", FALSE)
                             /\ Get(applied.job, "location", <<>>) # <<>>)

\* C23 as claimed: the job text holds at most the first 500 characters of
\* the cleaned body, an empty body adds no clause, and exactly one of the
\* remote clause and the location clause is emitted.
C23_ExactlyOneOfRemoteAndLocation ==
    /\ BodyIsCleanedAndCut
    /\ RemoteWinsOverLocation
    /\ (applied.fn = "job_to_text" /\ applied.out.ok)
         => (EmitsRemote <=> ~EmitsLocation)

\* C23, amended: the job text holds at most the first 500 characters of the
\* cleaned body, an empty body adds no clause, and at most one of the remote
\* clause and the location clause is emitted: the remote clause for a remote
\* job, the location clause for a non-remote job with a location, neither
\* for a non-remote job without a location.
C23_AtMostOneOfRemoteAndLocation ==
    /\ BodyIsCleanedAndCut
    /\ RemoteWinsOverLocation
    /\ (applied.fn = "job_to_text" /\ applied.out.ok)
         => ~(EmitsRemote /\ EmitsLocation)

\* C23 happens: a body of 502 cleaned characters is cut to 500 in the text
\* of a non-remote job, which carries its location clause
C23_Witness ==
    /\ applied.fn = "job_to_text" /\ applied.out.ok
    /\ Len(CleanBody(applied.job)) = ContentLimit + 2
    /\ EmitsLocation /\ ~EmitsRemote
    /\ Len(applied.out.val)
         = Len(job_to_text(Without(applied.job, "content")).val)
             + 2 + ContentLimit

\* a non-remote job without a location carries neither clause
C23_NeitherClause ==
    /\ applied.fn = "job_to_text" /\ applied.out.ok
    /\ ~Get(applied.job, "remote", FALSE)
    /\ Get(applied.job, "location", <<>>) = <<>>
    /\ ~EmitsRemote /\ ~EmitsLocation

\* the names under a key of the first n records of a list, joined by ", "
Listed(list, key, n) ==
    join(<<","," ">>, [i \in 1..(IF n < Len(list) THEN n ELSE Len(list))
                          |-> list[i][key]])

\* C24: the profile text lists the first 15 skill names and the first 3
\* project titles at most, in input order, and every domain name; the text
\* is that of the same profile cut to its first 15 skills and 3 projects.
C24_FirstSkillsAndProjectsOnly ==
    applied.fn = "profile_to_text"
    => LET profile == applied.profile
           skills == Get(profile, "skills", <<>>)
           domains == Get(profile, "domains", <<>>)
           projects == Get(profile, "projects", <<>>)
       IN  /\ skills # <<>>
               => Contains(applied.out,
                           <<"s","k","i","l","l","e","d"," ","i","n"," ">>
                             \o Listed(skills, "skill", TopSkills) \o <<".">>)
           /\ domains # <<>>
               => Contains(applied.out,
                           <<"e","x","p","e","r","t","i","s","e"," ","i","n"," ">>
                             \o Listed(domains, "domain", Len(domains))
                             \o <<".">>)
           /\ projects # <<>>
               => Contains(applied.out,
                           <<"p","r","o","j","e","c","t","s"," ","l","i","k","e",
                             " ">>
                             \o Listed(projects, "title", TopProjects)
                             \o <<".">>)
           /\ ("skills" \in DOMAIN profile /\ "projects" \in DOMAIN profile)
               => applied.out
                    = profile_to_text(
                        Merge(profile,
                              [skills |-> Slice(skills, TopSkills),
                               projects |-> Slice(projects, TopProjects)]))

\* C24 happens: a profile of 17 skills, 17 domains and 5 projects projects
\* like the same profile with 15 skills and 3 projects, all domains listed
C24_Witness ==
    /\ applied.fn = "profile_to_text"
    /\ Len(Get(applied.profile, "skills", <<>>)) = TopSkills + 2
    /\ Len(Get(applied.profile, "projects", <<>>)) = TopProjects + 2
    /\ Len(Get(applied.profile, "domains", <<>>)) > TopSkills
    /\ applied.out = profile_to_text(Seasoned)
    /\ Contains(applied.out, Numbered("d", TopSkills + 2))
    /\ ~Contains(applied.out, Numbered("s", TopSkills + 1))
    /\ ~Contains(applied.out, Numbered("p", TopProjects + 1))

\* the band of a score n/d, d > 0: 3 above 0.7, 2 above 0.5, 1 above 0.3,
\* else 0
Band(score) ==
    IF 10 * score.n > 7 * score.d THEN 3
    ELSE IF 10 * score.n > 5 * score.d THEN 2
    ELSE IF 10 * score.n > 3 * score.d THEN 1
    ELSE 0

BandLabels ==
    <<<<"L","i","m","i","t","e","d"," ","m","a","t","c","h">>,
      <<"M","o","d","e","r","a","t","e"," ","m","a","t","c","h">>,
      <<"G","o","o","d"," ","m","a","t","c","h">>,
      <<"E","x","c","e","l","l","e","n","t"," ","m","a","t","c","h">>>>

KeywordsClause ==
    <<"."," ","C","o","m","m","o","n"," ","k","e","y","w","o","r","d","s",":",
      " ">>

\* the tokens listed after "Common keywords: " in an explanation that
\* starts with the label: they have no whitespace in them and are joined by
\* ", ", so that each but the last is followed by one comma
ListedKeywords(explanation, label) ==
    LET rest == SubSeq(explanation, Len(label) + Len(KeywordsClause) + 1,
                       Len(explanation))
        listed == split(rest)
    IN  [i \in DOMAIN listed |->
            IF i < Len(listed) THEN Slice(listed[i], -1) ELSE listed[i]]

\* the words of both lowercased texts that are longer than 3 characters
\* and outside the stoplist
SharedKeywords(profile_text, job_text) ==
    {word \in ToSet(split(lower(profile_text)))
                \cap ToSet(split(lower(job_text))) :
        Len(word) > 3 /\ word \notin explain_stoplist}

\* an explanation of the score: the label of its band, alone or followed by
\* at most five distinct tokens that are keywords
IsExplanation(explanation, score, keywords) ==
    LET label == BandLabels[Band(score) + 1]
    IN  \/ explanation = label
        \/ /\ Slice(explanation, Len(label) + Len(KeywordsClause))
                = label \o KeywordsClause
           /\ LET tokens == ListedKeywords(explanation, label)
              IN  /\ Len(tokens) \in 1..MaxKeywords
                  /\ Injective(tokens)
                  /\ \A i \in DOMAIN tokens : tokens[i] \in keywords

\* C25: every explanation carries the label of the strict band of its
\* score and at most 5 tokens shared by both lowercased texts, longer than
\* 3 characters and outside the stoplist; the records one candidate can
\* give differ in their explanation only, and sort alike.
C25_ExplanationBandsAndKeywords ==
    /\ applied.fn = "explain_match"
        => LET keywords == SharedKeywords(applied.profile_text,
                                          applied.job_text)
           IN  /\ applied.out # {}
               /\ \A explanation \in applied.out :
                     IsExplanation(explanation, applied.score, keywords)
    /\ (applied.fn = "job_match_of" /\ applied.out.ok)
        => LET keywords ==
                   SharedKeywords(profile_to_text(profiles[applied.user_email]),
                                  job_to_text(applied.job).val)
           IN  \A a, b \in applied.out.val :
                  /\ Ranking(<<a>>) = Ranking(<<b>>)
                  /\ Ranking(sort_by_final_score(<<a, b>>))
                       = Ranking(sort_by_final_score(<<b, a>>))
                  /\ IsExplanation(a.match_explanation, a.final_score,
                                   keywords)

\* C25 happens: a score of exactly 0.7 is a Good match, and five of the
\* six shared tokens are listed, in more than one possible choice
C25_Witness ==
    /\ applied.fn = "explain_match"
    /\ applied.score = R(7, 10)
    /\ Cardinality(applied.out) > 1
    /\ \A explanation \in applied.out :
          /\ Slice(explanation, 10) = <<"G","o","o","d"," ","m","a","t","c","h">>
          /\ Len(ListedKeywords(explanation, BandLabels[3])) = MaxKeywords

\* threads a and b have both returned from a call for the same user, and
\* the store did not change during these calls or the calls they overlap
ReturnedTogether(a, b) ==
    /\ a # b
    /\ threads[a].pc = "returned" /\ threads[b].pc = "returned"
    /\ threads[a].user = threads[b].user
    /\ ~threads[a].changed /\ ~threads[b].changed

\* C26: two get_user_profile_text calls for one user that overlap while the
\* store does not change return the same, and the cache ends holding the
\* text they return, or nothing when they return None; when both missed the
\* cache the text is the projection of the stored profile.  Whatever the
\* interleaving, a cached text is the projection of a profile.
C26_ConcurrentCallsAgree ==
    /\ \A a, b \in Threads :
          ReturnedTogether(a, b)
          => LET u == threads[a].user
             IN  /\ threads[a].found = threads[b].found
                 /\ threads[a].text = threads[b].text
                 /\ threads[a].found
                      => /\ u \in DOMAIN user_profile_cache
                         /\ user_profile_cache[u] = threads[a].text
                 /\ ~threads[a].found => u \notin DOMAIN user_profile_cache
                 /\ (threads[a].found /\ threads[a].missed /\ threads[b].missed)
                      => threads[a].text = profile_to_text(profiles[u])
    /\ \A u \in DOMAIN user_profile_cache :
          \E p \in Profiles : user_profile_cache[u] = profile_to_text(p)

\* C26 happens: both threads missed the cache, both read the store and both
\* wrote the cache, and the store did not change
C26_Witness ==
    \E a, b \in Threads :
       /\ ReturnedTogether(a, b)
       /\ threads[a].missed /\ threads[b].missed
       /\ threads[a].found /\ threads[b].found
       /\ user_profile_cache[threads[a].user] = threads[b].text

\* the last call ranked, and left the caller's list as it was passed: the
\* same jobs in the same order, each with the keys it had
InputsLeftAlone ==
    IsMatch
    => /\ Len(last.left) = Len(last.jobs)
       /\ \A i \in DOMAIN last.jobs :
             /\ DOMAIN last.left[i] = DOMAIN last.jobs[i]
             /\ last.left[i] = last.jobs[i]
       /\ Returned
            => \A i \in DOMAIN last.value :
                  /\ MatchKeys \subseteq DOMAIN last.value[i]
                  /\ \A j \in DOMAIN last.left :
                        last.value[i] # last.left[j]

AllProjected == \A i \in DOMAIN last.jobs : job_to_text(last.jobs[i]).ok

C29_NotFoundIsNotCached ==
    \A t \in Threads :
       threads[t].pc = "returned"
       => LET call == threads[t]
          IN  /\ ~call.found
                  => /\ call.missed
                     /\ ~call.changed
                          => call.user \notin DOMAIN user_profile_cache
              /\ (call.found /\ call.missed)
                  => /\ call.text = profile_to_text(call.profile)
                     /\ call.user \in DOMAIN user_profile_cache
                     /\ ~call.changed
                          => /\ user_profile_cache[call.user] = call.text
                             /\ call.profile = profiles[call.user]

\* C29 happens: one call returned None, the profile was stored, and a
\* later call missed the cache, read the store, and returned and cached
\* the projection of the stored profile
C29_Witness ==
    \E a, b \in Threads :
       /\ threads[a].pc = "returned" /\ ~threads[a].found
       /\ threads[b].pc = "returned" /\ threads[b].found
       /\ threads[b].user = threads[a].user
       /\ threads[b].missed
       /\ threads[b].text = profile_to_text(profiles[threads[b].user])
       /\ user_profile_cache[threads[b].user] = threads[b].text

\* the positions of the returned list that hold a job of subreddit s
FromSubreddit(s) ==
    {i \in DOMAIN applied.out.jobs :
        applied.out.jobs[i].subreddit = Subreddits[s]}

\* C30: every job that scrape_intelligent_jobs returns has a relevance_score
\* from min_relevance_score to 1.0, the list is in non-increasing order of
\* relevance_score, a subreddit contributes at most limit_per_subreddit
\* jobs, none when its scan failed, and the jobs its scan found otherwise.
C30_ScrapedJobsAreRelevantAndSorted ==
    applied.fn = "scrape_intelligent_jobs"
    => LET jobs == applied.out.jobs
           scans == applied.out.scans
       IN  /\ \A i \in DOMAIN jobs :
                 /\ RLeq(Hundredths(MinRelevance), jobs[i].relevance_score)
                 /\ RLeq(jobs[i].relevance_score, One)
           /\ \A i, j \in DOMAIN jobs :
                 i < j => RLeq(jobs[j].relevance_score, jobs[i].relevance_score)
           /\ \A s \in DOMAIN scans :
                 /\ Cardinality(FromSubreddit(s)) <= applied.limit_per_subreddit
                 /\ scans[s].failed => FromSubreddit(s) = {}
                 /\ ~scans[s].failed
                      => Cardinality(FromSubreddit(s)) = Len(scans[s].jobs)
           /\ Len(jobs) = Cardinality(UNION {FromSubreddit(s) : s \in DOMAIN scans})

\* C30 happens: the first subreddit failed after a relevant job was found
\* in it and contributes nothing, the second contributes its limit of two
\* jobs, returned in an order that is not the order of their posts
C30_Witness ==
    /\ applied.fn = "scrape_intelligent_jobs"
    /\ applied.limit_per_subreddit = 2
    /\ Len(applied.out.scans) = 2
    /\ applied.out.scans[1].failed
    /\ Len(applied.listings[1]) > 1
    /\ FromSubreddit(1) = {}
    /\ Cardinality(FromSubreddit(2)) = 2
    /\ RLt(applied.out.jobs[2].relevance_score,
           applied.out.jobs[1].relevance_score)
    /\ applied.out.jobs[1].title = applied.listings[2][3].job_data.title

====
